---- MODULE Spec2Model ----
(***************************************************************************)
(* A model of the HackMD sync plugin: the Sync Engine of src/src/main.ts   *)
(* (push, pull, delete and their forced variants), the frontmatter codec   *)
(* it uses, the Remote Store Gateway of src/src/client.ts and the delete   *)
(* confirmation modal.                                                     *)
(*                                                                         *)
(* Texts are sequences of lines: the text is the lines joined by "\n", so  *)
(* a text ending in a newline ends in a Blank line.  Times are integer     *)
(* milliseconds.  A command runs as a coroutine: one action per segment    *)
(* between two network round trips, and the environment (clock, other     *)
(* editors of the remote note, the user typing) moves in between.          *)
(*                                                                         *)
(* Spec is the Sync Engine on the active Document.  The other files of the *)
(* vault (vault) belong to the create-from-URL command of SpecVault; arg   *)
(* and ret hold the input and the results of the gateway call and of the   *)
(* codec functions that SpecGateway and SpecCodec apply.  SpecOps is the   *)
(* Document touched by the commands only, SpecUnsynced the Document whose  *)
(* header links it to no note and whose permission settings change, and    *)
(* SpecSession two overlapping callers of HackMDClient.getInstance.        *)
(* SpecOverlap is the push command invoked again while it is suspended,    *)
(* SpecRace a push against another party's edits of the remote note.       *)
(***************************************************************************)
EXTENDS Integers, Sequences, FiniteSets, TLC

VARIABLES now, doc, remote, accessToken, instToken, cmd, net, reqs, writes, outcome, nEdits,
          vault, arg, ret, permissions

vars == <<now, doc, remote, accessToken, instToken, cmd, net, reqs, writes, outcome, nEdits,
          vault, arg, ret, permissions>>

(***************************************************************************)
(* Program constants and bounds.                                           *)
(***************************************************************************)
SYNC_TIME_MARGIN == 4000

UPDATE_SETTLE_DELAY == 1000

MaxTime == 4001

MaxEdits == 2

MaxNotes == 1

\* the requests one command may send before the model stops its retries
MaxReqs == 2

\* The clock values the model visits: 0 and the times from margin - 1 on,
\* so that differences of margin - 1, margin and margin + 1 all occur.
Clock == {t \in 0..MaxTime : t = 0 \/ t >= SYNC_TIME_MARGIN - 1}

\* the ids the remote store hands out, in order
IdSeq == <<"n1", "n2", "n3">>

NoteIds == {IdSeq[k] : k \in 1..MaxNotes}

BaseName == "Note"

Tokens == {"", "tok"}

\* statuses of failed requests the model lets the server or transport produce
FailStatuses == {0, 401, 500}

\* the team a created note may belong to: none, or the team workspace
TeamPaths == {[ty |-> "null"], [ty |-> "str", s |-> "team"]}

(***************************************************************************)
(* Values of header keys and of note fields.                               *)
(***************************************************************************)
Null == [ty |-> "null"]

Str(s) == [ty |-> "str", s |-> s]

EmptyObj == [ty |-> "obj"]

\* [], a non-empty mapping and a non-empty list
EmptyList == [ty |-> "list"]

SomeObj == [ty |-> "obj", size |-> 1]

SomeList == [ty |-> "list", size |-> 1]

\* the nested mapping that the header held under 'hackmd' before 2.0
OldForm(url, title, lastSync) ==
  [ty |-> "obj", size |-> 3, url |-> url, title |-> title, lastSync |-> lastSync]

\* a number other than 0
SomeNum == [ty |-> "num", n |-> 1]

\* typeof v === 'string'
IsString(v) == v.ty \in {"str", "url", "iso"}

\* new Date(t).toISOString()
ToISOString(t) == [ty |-> "iso", n |-> t]

\* new Date(v).getTime(): a number of milliseconds, or NaN
GetTime(v) == IF v.ty = "iso" THEN [nan |-> FALSE, n |-> v.n] ELSE [nan |-> TRUE]

\* a number as GetTime gives it
Num(n) == [nan |-> FALSE, n |-> n]

\* a - b > m on JavaScript numbers: false when either is NaN
DiffExceeds(a, b, m) == ~a.nan /\ ~b.nan /\ a.n - b.n > m

\* a URL: scheme://host/[@owner/]id
UrlOf(host, owner, id) == [ty |-> "url", host |-> host, owner |-> owner, id |-> id]

\* JavaScript truthiness of a value
Truthy(v) == v # Null /\ v # Str("")

(***************************************************************************)
(* Header mappings: a JavaScript object, i.e. key/value pairs in insertion *)
(* order with distinct keys.                                               *)
(***************************************************************************)
EmptyMap == <<>>

MKeys(m) == {m[i].k : i \in 1..Len(m)}

MHas(m, k) == k \in MKeys(m)

\* m[k]; undefined is modelled as Null
MGet(m, k) == IF MHas(m, k) THEN m[CHOOSE i \in 1..Len(m) : m[i].k = k].v ELSE Null

\* m[k] = v
MSet(m, k, v) ==
  IF MHas(m, k)
  THEN [i \in 1..Len(m) |-> IF m[i].k = k THEN [k |-> k, v |-> v] ELSE m[i]]
  ELSE Append(m, [k |-> k, v |-> v])

MDelKeep(k, p) == p.k # k

\* delete m[k]
MDelete(m, k) == SelectSeq(m, LAMBDA p : MDelKeep(k, p))

RECURSIVE Spread(_, _)
\* { ...a, ...b }
Spread(a, b) == IF b = <<>> THEN a ELSE Spread(MSet(a, b[1].k, b[1].v), Tail(b))

(***************************************************************************)
(* Lines of text.                                                          *)
(***************************************************************************)
Delim == [t |-> "delim"]

Blank == [t |-> "blank"]

Kv(k, v) == [t |-> "kv", k |-> k, v |-> v]

Txt(s) == [t |-> "txt", s |-> s]

\* the lines of text[from..] (String.slice at a line start)
SliceFrom(text, from) == SubSeq(text, from, Len(text))

\* number of consecutive Blank lines of text starting at line i
RECURSIVE BlankRun(_, _)
BlankRun(text, i) ==
  IF i <= Len(text) /\ text[i] = Blank THEN 1 + BlankRun(text, i + 1) ELSE 0

\* index of the first Delim line in text[from..upto], 0 when there is none
RECURSIVE FirstDelim(_, _, _)
FirstDelim(text, from, upto) ==
  IF from > upto THEN 0
  ELSE IF text[from] = Delim THEN from
  ELSE FirstDelim(text, from + 1, upto)

(***************************************************************************)
(* The YAML library of the host: parseYaml and stringifyYaml.              *)
(***************************************************************************)
NotBlank(l) == l # Blank

IsKv(l) == l.t = "kv"

YamlNull == [kind |-> "null"]

YamlError == [kind |-> "error"]

\* the value of a document made of the non-blank lines ls: a mapping, null
\* for an empty document, a scalar for a single plain line, and a thrown
\* error otherwise (duplicate keys, mixed or unparseable lines)
ParseLines(ls) ==
  IF ls = <<>> THEN YamlNull
  ELSE IF \A i \in 1..Len(ls) : IsKv(ls[i])
  THEN IF \A i, j \in 1..Len(ls) : ls[i].k = ls[j].k => i = j
       THEN [kind |-> "map", m |-> [i \in 1..Len(ls) |-> [k |-> ls[i].k, v |-> ls[i].v]]]
       ELSE YamlError
  ELSE IF Len(ls) = 1 /\ ls[1].t = "txt" THEN [kind |-> "scalar", s |-> ls[1].s]
  ELSE YamlError

\* parseYaml(lines)
ParseYaml(lines) == ParseLines(SelectSeq(lines, NotBlank))

\* stringifyYaml(m).trim(), as lines
StringifyYaml(m) ==
  IF m = <<>> THEN <<Txt("{}")>> ELSE [i \in 1..Len(m) |-> Kv(m[i].k, m[i].v)]

(***************************************************************************)
(* Frontmatter codec of the plugin.                                        *)
(*                                                                         *)
(* content.match(/^---\s*\n([\s\S]*?)\n---\s*\n/) on lines: the first line *)
(* is the delimiter; the greedy \s*\n skips the blank lines after it; the  *)
(* lazy capture runs up to the first later delimiter line that is followed *)
(* by a newline; the closing \s*\n skips the blank lines after that.       *)
(***************************************************************************)
NoMatch == [matched |-> FALSE]

\* the line the rest starts at: p, but the last \n matched must exist
FmPosition(p, n) == IF p <= n THEN p ELSE n

\* the match whose capture is content[from..d-1] and closing delimiter d
FmFound(content, from, d) ==
  [matched |-> TRUE, capture |-> SubSeq(content, from, d - 1),
   position |-> FmPosition(d + 1 + BlankRun(content, d + 1), Len(content))]

\* s: the line after the opening delimiter and its blank lines; d: the
\* first delimiter line after s that a newline follows, 0 when none.
\* Without one, backtracking gives up the last blank line to the capture.
FmFrom(content, s, d) ==
  IF d # 0 THEN FmFound(content, s, d)
  ELSE IF s > 2 /\ s < Len(content) /\ content[s] = Delim THEN FmFound(content, s - 1, s)
  ELSE NoMatch

FmOpen(content, s) == FmFrom(content, s, FirstDelim(content, s + 1, Len(content) - 1))

FmSkip(b, n) == IF 2 + b <= n THEN 2 + b ELSE n

FmMatch(content) ==
  IF Len(content) < 3 \/ content[1] # Delim THEN NoMatch
  ELSE FmOpen(content, FmSkip(BlankRun(content, 2), Len(content)))

NoFrontmatter(content) == [frontmatter |-> YamlNull, content |-> content, position |-> 1]

\* the try block of getFrontmatter: y is what parseYaml gave or threw
FmParsed(content, fm, y) ==
  IF y.kind = "error" THEN NoFrontmatter(content)
  ELSE [frontmatter |-> y, content |-> SliceFrom(content, fm.position),
        position |-> fm.position]

FmTry(content, fm) ==
  IF fm.matched THEN FmParsed(content, fm, ParseYaml(fm.capture))
  ELSE NoFrontmatter(content)

\* getFrontmatter(content): frontmatter is a mapping ("map"), null, or a
\* scalar string; position is the line the returned content starts at
getFrontmatter(content) == FmTry(content, FmMatch(content))

\* the own enumerable properties of a frontmatter value, as { ...fm } sees
\* them (a string spreads into its characters, kept as one indexed entry)
AsObject(fm) ==
  IF fm.kind = "map" THEN fm.m
  ELSE IF fm.kind = "scalar" THEN <<[k |-> "0", v |-> Str(fm.s)]>>
  ELSE EmptyMap

\* frontmatter?.key
FmGet(fm, k) == IF fm.kind = "map" THEN MGet(fm.m, k) ELSE Null

\* combine(frontmatter, content)
combine(frontmatter, content) ==
  <<Delim>> \o StringifyYaml(frontmatter) \o <<Delim>> \o content

\* String.prototype.trim on a text whose lines carry no outer whitespace
RECURSIVE TrimEnd(_)
TrimEnd(text) ==
  IF Len(text) > 1 /\ text[Len(text)] = Blank THEN TrimEnd(SubSeq(text, 1, Len(text) - 1))
  ELSE text

RECURSIVE TrimStart(_)
TrimStart(text) ==
  IF Len(text) > 1 /\ text[1] = Blank THEN TrimStart(Tail(text)) ELSE text

Trim(text) == TrimEnd(TrimStart(text))

\* the header of a text as a mapping, and one key of it
HeaderOf(text) == AsObject(getFrontmatter(text).frontmatter)

HeaderGet(text, k) == FmGet(getFrontmatter(text).frontmatter, k)

(***************************************************************************)
(* Identity resolver.                                                      *)
(***************************************************************************)
\* the regular expression is not anchored: "hackmd.io/" is searched for
\* anywhere in the text, so every host that ends in hackmd.io matches
HostMatches(host) == host \in {"hackmd.io", "team.hackmd.io", "nothackmd.io"}

\* ([a-zA-Z0-9_-]+) at the start of a path segment: the leading run of
\* accepted characters
IdPrefix(seg) == IF seg = "n1?view=edit" THEN "n1" ELSE seg

\* url.match(...) on a value that is not a string: "url.match is not a
\* function" is thrown
TypeError == [ty |-> "throw", name |-> "TypeError"]

\* getIdFromUrl(url): the id, or Null
getIdFromUrl(url) ==
  IF ~Truthy(url) THEN Null
  ELSE IF ~IsString(url) THEN TypeError
  ELSE IF url.ty = "url" /\ HostMatches(url.host) /\ IdPrefix(url.id) # ""
  THEN Str(IdPrefix(url.id))
  ELSE Null

\* getUrlFromId(noteId), also the template `https://hackmd.io/${id}`
getUrlFromId(noteId) == UrlOf("hackmd.io", "", noteId)

(***************************************************************************)
(* Remote Store Gateway (HackMDClient) and the remote store behind it.     *)
(***************************************************************************)
\* handleApiError(error): the statusCode of the HackMDError it builds; an
\* error without status is given as status 0
statusCode(status) ==
  IF status = 0 THEN 0
  ELSE IF status = 401 THEN 401
  ELSE IF status = 403 THEN 403
  ELSE IF status = 404 THEN 404
  ELSE IF status = 429 THEN 429
  ELSE status

\* variant of handleApiError without the case for 429
handleApiErrorNoRateLimit(status) ==
  IF status = 0 THEN "CONNECTION_FAILED"
  ELSE IF status = 401 THEN "AUTH_INVALID"
  ELSE IF status = 403 THEN "PERMISSION_DENIED"
  ELSE IF status = 404 THEN "NOTE_NOT_FOUND"
  ELSE IF status \in {500, 502, 503, 504} THEN "SERVER_ERROR"
  ELSE "UNKNOWN"

\* handleApiError(error): the error type for a failed request
handleApiError(status) ==
  IF status = 0 THEN "CONNECTION_FAILED"
  ELSE IF status = 401 THEN "AUTH_INVALID"
  ELSE IF status = 403 THEN "PERMISSION_DENIED"
  ELSE IF status = 404 THEN "NOTE_NOT_FOUND"
  ELSE IF status = 429 THEN "RATE_LIMITED"
  ELSE IF status \in {500, 502, 503, 504} THEN "SERVER_ERROR"
  ELSE "UNKNOWN"

\* a || b
OrElse(a, b) == IF Truthy(a) THEN a ELSE b

FreeNote == [state |-> "free"]

DeletedNote == [state |-> "deleted"]

TitleOr(t) == IF t.ty = "str" THEN t ELSE Str("")

\* the title the remote store derives for a note: the title key of the
\* header of its content, empty when there is none
ServerTitle(content) == TitleOr(HeaderGet(content, "title"))

\* HackMDNote as the store holds it
LiveNote(id, content, createdAt, lastChangedAt, teamPath) ==
  [state |-> "live", id |-> id, title |-> ServerTitle(content), content |-> content,
   createdAt |-> createdAt, lastChangedAt |-> lastChangedAt, teamPath |-> teamPath]

\* the note after its content was replaced at the present time
Edited(note, content) ==
  LiveNote(note.id, content, note.createdAt, ToISOString(now), note.teamPath)

IsLive(id) == id \in NoteIds /\ remote[id].state = "live"

FreeIds == {i \in NoteIds : remote[i].state = "free"}

\* the id the store gives the next created note
NextId == IdSeq[CHOOSE k \in 1..MaxNotes : IdSeq[k] \in FreeIds /\ \A j \in 1..(k - 1) : IdSeq[j] \notin FreeIds]

NoReq == [method |-> "NONE"]

Request(method, target, content) == [method |-> method, target |-> target, content |-> content]

\* DEFAULT_SETTINGS: the three default permissions of new notes
DEFAULT_SETTINGS ==
  [defaultReadPermission |-> "owner", defaultWritePermission |-> "owner",
   defaultCommentPermission |-> "disabled"]

\* variant of createNote whose request carries the permissions of
\* DEFAULT_SETTINGS
createNoteWithDefaults(content) ==
  [method |-> "POST", target |-> "/notes", content |-> content,
   readPermission |-> DEFAULT_SETTINGS.defaultReadPermission,
   writePermission |-> DEFAULT_SETTINGS.defaultWritePermission,
   commentPermission |-> DEFAULT_SETTINGS.defaultCommentPermission]

\* the request of client.createNote({content, readPermission,
\* writePermission, commentPermission}) in pushNewNote
createNote(content) ==
  [method |-> "POST", target |-> "/notes", content |-> content,
   readPermission |-> permissions.defaultReadPermission,
   writePermission |-> permissions.defaultWritePermission,
   commentPermission |-> permissions.defaultCommentPermission]

LogEntry(req) == [method |-> req.method, target |-> req.target]

\* how many requests of a method a log holds
Count(log, method) == Cardinality({i \in 1..Len(log) : log[i].method = method})

(***************************************************************************)
(* State of the command in flight.                                         *)
(***************************************************************************)
Idle == [op |-> "none", mode |-> "normal", pc |-> "idle", content |-> <<Blank>>, noteId |-> Null, timer |-> 0]

NoOutcome == [op |-> "none", mode |-> "normal", kind |-> "none"]

\* the command ends: a Notice reports kind ("ok" or the error); the command
\* stays in view as "done" until the Notice is dismissed
Finish(c, kind, log) ==
  /\ cmd' = [c EXCEPT !.pc = "done"]
  /\ net' = NoReq
  /\ reqs' = log
  /\ outcome' = [op |-> c.op, mode |-> c.mode, kind |-> kind]

\* the command suspends on a request
Await(c, req, log) ==
  /\ cmd' = c
  /\ net' = req
  /\ reqs' = Append(log, LogEntry(req))
  /\ outcome' = outcome

\* no input of a function under test
NoArg == [fn |-> "none"]

Init ==
  /\ now = 0
  /\ doc = [text |-> <<Txt("b0"), Blank>>, mtime |-> 0]
  /\ remote = [i \in NoteIds |-> FreeNote]
  /\ accessToken \in Tokens
  /\ instToken = ""
  /\ cmd = Idle
  /\ net = NoReq
  /\ reqs = <<>>
  /\ writes = 0
  /\ outcome = NoOutcome
  /\ nEdits = 0
  /\ permissions = DEFAULT_SETTINGS
  /\ vault = {}
  /\ arg = NoArg
  /\ ret = <<>>

(***************************************************************************)
(* Environment: the clock, the settings tab, the user and other editors.   *)
(* The user and the other parties make MaxEdits changes at most.           *)
(***************************************************************************)
Tick ==
  /\ cmd.pc # "done"
  /\ \E t \in Clock : t > now /\ now' = t
  /\ UNCHANGED <<doc, remote, accessToken, instToken, cmd, net, reqs, writes, outcome, nEdits, vault, arg, ret, permissions>>

\* the access token field of the settings tab
SetToken ==
  /\ cmd.pc = "idle"
  /\ nEdits < MaxEdits
  /\ \E t \in Tokens : t # accessToken /\ accessToken' = t
  /\ nEdits' = nEdits + 1
  /\ UNCHANGED <<now, doc, remote, instToken, cmd, net, reqs, writes, outcome, vault, arg, ret, permissions>>

\* the header lines of a text, up to where getFrontmatter's content starts
HeaderLines(text) == SubSeq(text, 1, getFrontmatter(text).position - 1)

\* the user saves the Document with a new text
UserEdit(text) ==
  /\ cmd.pc # "done"
  /\ nEdits < MaxEdits
  /\ text # doc.text
  /\ doc' = [text |-> text, mtime |-> now]
  /\ nEdits' = nEdits + 1
  /\ UNCHANGED <<now, remote, accessToken, instToken, cmd, net, reqs, writes, outcome, vault, arg, ret, permissions>>

\* the user retypes the body of the Document
UserEditBody == UserEdit(HeaderLines(doc.text) \o <<Txt("b1"), Blank>>)

\* the user adds a key of their own to the header
UserAddKey ==
  /\ ~MHas(HeaderOf(doc.text), "tags")
  /\ UserEdit(combine(MSet(HeaderOf(doc.text), "tags", Str("x")),
                      getFrontmatter(doc.text).content))

\* the user deletes the lastSync line of the header
UserRemoveLastSync ==
  /\ MHas(HeaderOf(doc.text), "lastSync")
  /\ UserEdit(combine(MDelete(HeaderOf(doc.text), "lastSync"),
                      getFrontmatter(doc.text).content))

\* another party edits the body of the remote note
RemoteEdit ==
  /\ cmd.pc # "done"
  /\ nEdits < MaxEdits
  /\ \E id \in NoteIds :
       /\ IsLive(id)
       /\ remote' = [remote EXCEPT ![id] =
            Edited(remote[id], HeaderLines(remote[id].content) \o <<Txt("r1"), Blank>>)]
  /\ nEdits' = nEdits + 1
  /\ UNCHANGED <<now, doc, accessToken, instToken, cmd, net, reqs, writes, outcome, vault, arg, ret, permissions>>

\* the owner or another party deletes the remote note
RemoteDelete ==
  /\ cmd.pc # "done"
  /\ nEdits < MaxEdits
  /\ \E id \in NoteIds :
       /\ IsLive(id)
       /\ remote' = [remote EXCEPT ![id] = DeletedNote]
  /\ nEdits' = nEdits + 1
  /\ UNCHANGED <<now, doc, accessToken, instToken, cmd, net, reqs, writes, outcome, vault, arg, ret, permissions>>

(***************************************************************************)
(* Sync Engine (HackMDPlugin).                                             *)
(***************************************************************************)
\* frontmatter?.url ? client.getIdFromUrl(frontmatter.url) : null
NoteIdOf(url) == IF Truthy(url) THEN getIdFromUrl(url) ELSE Null

\* prepareSync(editor)
prepareSync(text) ==
  [content |-> text, frontmatter |-> getFrontmatter(text).frontmatter,
   noteId |-> NoteIdOf(HeaderGet(text, "url"))]

\* value && typeof value === 'object' && Object.keys(value).length === 0
IsEmptyObject(v) == v \in {EmptyObj, EmptyList}

PruneKeep(p) == ~IsEmptyObject(p.v)

\* the end of updateLocalNote: no header block for an empty mapping
JoinHeader(newFrontmatter, noteContent) ==
  IF newFrontmatter # <<>> THEN combine(newFrontmatter, noteContent) ELSE noteContent

\* variant of updateLocalNote in which the existing header wins the union
updateLocalNoteLeftBiased(baseContent, metadata) ==
  JoinHeader(SelectSeq(Spread(metadata, HeaderOf(baseContent)), PruneKeep),
             getFrontmatter(baseContent).content)

\* updateLocalNote: the text handed to editor.setValue
updateLocalNote(baseContent, metadata) ==
  JoinHeader(SelectSeq(Spread(HeaderOf(baseContent), metadata), PruneKeep),
             getFrontmatter(baseContent).content)

TeamPathEntry(teamPath) ==
  IF Truthy(teamPath) THEN <<[k |-> "teamPath", v |-> teamPath]>> ELSE <<>>

\* the metadata push and pull stamp after a note came back from the store
updatedMetadata(note) ==
  <<[k |-> "url", v |-> getUrlFromId(note.id)],
    [k |-> "title", v |-> OrElse(note.title, Str(BaseName))],
    [k |-> "lastSync", v |-> ToISOString(now)]>>
  \o TeamPathEntry(note.teamPath)

\* variant of StripKeys that leaves the lastSync key in place
StripKeysKeepLastSync(m) == MDelete(MDelete(MDelete(m, "url"), "teamPath"), "title")

\* variant of StripKeys that leaves the title key in place
StripKeysKeepTitle(m) == MDelete(MDelete(MDelete(m, "url"), "lastSync"), "teamPath")

\* the four deletes of cleanupHackMDMetadata
StripKeys(m) == MDelete(MDelete(MDelete(MDelete(m, "url"), "lastSync"), "teamPath"), "title")

\* the end of cleanupHackMDMetadata
CleanJoin(cleanedFrontmatter, noteContent) ==
  IF cleanedFrontmatter # <<>> THEN combine(cleanedFrontmatter, noteContent)
  ELSE Trim(noteContent)

\* if (frontmatter) in cleanupHackMDMetadata
HasFrontmatter(text) == getFrontmatter(text).frontmatter.kind # "null"

\* variant of cleanupHackMDMetadata that leaves the header as it is
cleanupHackMDMetadataKeepAll(text) == text

\* cleanupHackMDMetadata: the text of the editor afterwards
cleanupHackMDMetadata(text) ==
  IF ~HasFrontmatter(text) THEN text
  ELSE CleanJoin(StripKeys(HeaderOf(text)), getFrontmatter(text).content)

\* pushNewNote: the content of the create request
contentWithTitle(content) ==
  combine(MSet(HeaderOf(content), "title", Str(BaseName)), getFrontmatter(content).content)

\* variant of PushVerdict that lets a header without lastSync pass
PushVerdictLenient(lastSyncStr, remoteStr) ==
  IF Truthy(lastSyncStr) /\ DiffExceeds(GetTime(lastSyncStr), GetTime(remoteStr), SYNC_TIME_MARGIN)
  THEN "SYNC_CONFLICT_REMOTE"
  ELSE ""

\* the comparison of checkPushConflicts: "" when the check passes
PushVerdict(lastSyncStr, remoteStr) ==
  IF ~Truthy(lastSyncStr) THEN "SYNC_CONFLICT_NO_LAST_SYNC"
  ELSE IF DiffExceeds(GetTime(lastSyncStr), GetTime(remoteStr), SYNC_TIME_MARGIN)
  THEN "SYNC_CONFLICT_REMOTE"
  ELSE ""

\* checkPushConflicts after the note came back
checkPushConflicts(text, note) ==
  PushVerdict(HeaderGet(text, "lastSync"), OrElse(note.lastChangedAt, note.createdAt))

\* variant of PullVerdict whose comparison is not strict
PullVerdictNotStrict(lastSyncStr, localModTime) ==
  IF ~Truthy(lastSyncStr) THEN "SYNC_CONFLICT_NO_LAST_SYNC"
  ELSE IF DiffExceeds(Num(localModTime), GetTime(lastSyncStr), SYNC_TIME_MARGIN - 1)
  THEN "SYNC_CONFLICT_LOCAL"
  ELSE ""

\* the comparison of checkPullConflicts: "" when the check passes
PullVerdict(lastSyncStr, localModTime) ==
  IF ~Truthy(lastSyncStr) THEN "SYNC_CONFLICT_NO_LAST_SYNC"
  ELSE IF DiffExceeds(Num(localModTime), GetTime(lastSyncStr), SYNC_TIME_MARGIN)
  THEN "SYNC_CONFLICT_LOCAL"
  ELSE ""

\* checkPullConflicts(file)
checkPullConflicts(text, mtime) == PullVerdict(HeaderGet(text, "lastSync"), mtime)

\* the command record once prepareSync has run
Prepared(op, mode, p) ==
  [op |-> op, mode |-> mode, pc |-> "idle", content |-> p.content,
   noteId |-> p.noteId, timer |-> 0]

GetNote(c) == Request("GET", c.noteId.s, <<Blank>>)

\* variant of RunPush that runs the conflict check in every mode
RunPushAlwaysCheck(c, log) ==
  IF c.noteId # Null
  THEN Await([c EXCEPT !.pc = "check"], GetNote(c), log)
  ELSE Await([c EXCEPT !.pc = "create"],
             createNote(contentWithTitle(c.content)), log)

\* variant of RunPush that creates a note whether or not the header has a url
RunPushAlwaysCreate(c, log) ==
  Await([c EXCEPT !.pc = "create"], createNote(contentWithTitle(c.content)), log)

\* pushToHackMD up to its first request
RunPush(c, log) ==
  IF c.noteId # Null
  THEN IF c.mode = "normal"
       THEN Await([c EXCEPT !.pc = "check"], GetNote(c), log)
       ELSE Await([c EXCEPT !.pc = "update"], Request("PATCH", c.noteId.s, c.content), log)
  ELSE Await([c EXCEPT !.pc = "create"],
             createNote(contentWithTitle(c.content)), log)

\* pullFromHackMD up to its request
RunPull(c, verdict, log) ==
  IF c.noteId = Null THEN Finish(c, "NOT_PUSHED", log)
  ELSE IF c.mode = "normal" /\ verdict # "" THEN Finish(c, verdict, log)
  ELSE Await([c EXCEPT !.pc = "fetch"], GetNote(c), log)

\* variant of RunDelete that calls deleteNote without opening the modal
RunDeleteUnconfirmed(c, log) ==
  IF c.noteId = Null THEN Finish(c, "NOT_LINKED", log)
  ELSE Await([c EXCEPT !.pc = "deleting"], Request("DELETE", c.noteId.s, <<Blank>>), log)

\* deleteHackMDNote: it opens the modal and returns
RunDelete(c, log) ==
  IF c.noteId = Null THEN Finish(c, "NOT_LINKED", log)
  ELSE /\ cmd' = [c EXCEPT !.pc = "modal"]
       /\ net' = NoReq
       /\ reqs' = log
       /\ outcome' = outcome

\* copyHackMDUrl: the url goes to the clipboard, no request is sent
RunCopy(c, log) ==
  IF c.noteId = Null THEN Finish(c, "NOT_PUSHED", log)
  ELSE Finish(c, "ok", log)

\* the first segment of a command once the client is there
RunCmd(c, log) ==
  CASE c.op = "push" -> RunPush(c, log)
    [] c.op = "pull" -> RunPull(c, checkPullConflicts(doc.text, doc.mtime), log)
    [] c.op = "delete" -> RunDelete(c, log)
    [] c.op = "copy" -> RunCopy(c, log)

\* prepareSync first: what it throws ends the command in createCallback
Run(op, mode, log) ==
  IF prepareSync(doc.text).noteId = TypeError
  THEN Finish([Idle EXCEPT !.op = op, !.mode = mode], "TypeError", log)
  ELSE RunCmd(Prepared(op, mode, prepareSync(doc.text)), log)

\* variant of Begin in which getInstance does not test for an empty token
BeginUnchecked(op, mode) ==
  /\ cmd.pc = "idle"
  /\ IF instToken = accessToken
     THEN Run(op, mode, <<>>) /\ instToken' = instToken
     ELSE /\ instToken' = accessToken
          /\ Await([Idle EXCEPT !.op = op, !.mode = mode, !.pc = "probe"],
                   Request("GET", "/me", <<Blank>>), <<>>)
  /\ UNCHANGED <<now, doc, remote, accessToken, writes, nEdits, vault, arg, ret, permissions>>

\* createCallback + getClient/getInstance + the command's first segment
Begin(op, mode) ==
  /\ cmd.pc = "idle"
  /\ IF accessToken = ""
     THEN Finish([Idle EXCEPT !.op = op, !.mode = mode], "AUTH_REQUIRED", <<>>)
          /\ instToken' = instToken
     ELSE IF instToken = accessToken
     THEN Run(op, mode, <<>>) /\ instToken' = instToken
     ELSE /\ instToken' = accessToken
          /\ Await([Idle EXCEPT !.op = op, !.mode = mode, !.pc = "probe"],
                   Request("GET", "/me", <<Blank>>), <<>>)
  /\ UNCHANGED <<now, doc, remote, accessToken, writes, nEdits, vault, arg, ret, permissions>>

Push == Begin("push", "normal")

ForcePush == Begin("push", "force")

Pull == Begin("pull", "normal")

ForcePull == Begin("pull", "force")

DeleteRemote == Begin("delete", "normal")

CopyUrl == Begin("copy", "normal")

\* the answer to getInstance's getMe probe
ProbeResponse ==
  /\ cmd.pc = "probe"
  /\ \/ Run(cmd.op, cmd.mode, reqs) /\ instToken' = instToken
     \/ \E st \in FailStatuses :
          /\ instToken' = ""
          /\ Finish(cmd, handleApiError(st), reqs)
  /\ UNCHANGED <<now, doc, remote, accessToken, writes, nEdits, vault, arg, ret, permissions>>

\* variant of RequestFails in which request sends the failed request once
\* more before it throws
RequestFailsResend ==
  /\ cmd.pc \in {"check", "update", "refetch", "create", "fetch"}
  /\ \E st \in FailStatuses \cup {404} :
       /\ st = 404 => ~IsLive(net.target)
       /\ st = 404 => net.method # "POST"
       /\ Finish(cmd, handleApiError(st), Append(reqs, LogEntry(net)))
  /\ UNCHANGED <<now, doc, remote, accessToken, instToken, writes, nEdits, vault, arg, ret, permissions>>

\* a request of the command in flight fails in transport or at the server
RequestFails ==
  /\ cmd.pc \in {"check", "update", "refetch", "create", "fetch"}
  /\ \E st \in FailStatuses \cup {404} :
       /\ st = 404 => ~IsLive(net.target)
       /\ st = 404 => net.method # "POST"
       /\ Finish(cmd, handleApiError(st), reqs)
  /\ UNCHANGED <<now, doc, remote, accessToken, instToken, writes, nEdits, vault, arg, ret, permissions>>

\* editor.setValue(text)
SetValue(text) ==
  /\ doc' = [text |-> text, mtime |-> now]
  /\ writes' = writes + 1

\* pushToHackMD after result is there: stamp the header, write back
PushFinish(result) ==
  /\ SetValue(updateLocalNote(cmd.content, updatedMetadata(result)))
  /\ Finish(cmd, "ok", reqs)

\* variant of CheckDone in which updateNote is called before the check is
\* awaited, so that the update request is out when the check throws
CheckDoneUpdateFirst(verdict) ==
  IF verdict # ""
  THEN Finish(cmd, verdict, Append(reqs, LogEntry(Request("PATCH", cmd.noteId.s, cmd.content))))
  ELSE Await([cmd EXCEPT !.pc = "update"], Request("PATCH", cmd.noteId.s, cmd.content), reqs)

\* checkPushConflicts throws, or pushToHackMD goes on to updateNote
CheckDone(verdict) ==
  IF verdict # ""
  THEN Finish(cmd, verdict, reqs)
  ELSE Await([cmd EXCEPT !.pc = "update"], Request("PATCH", cmd.noteId.s, cmd.content), reqs)

\* the note came back for checkPushConflicts
CheckResponse ==
  /\ cmd.pc = "check"
  /\ IsLive(net.target)
  /\ CheckDone(checkPushConflicts(doc.text, remote[net.target]))
  /\ UNCHANGED <<now, doc, remote, accessToken, instToken, writes, nEdits, vault, arg, ret, permissions>>

\* the store holds note n from now on
Store(n) == remote' = [remote EXCEPT ![n.id] = n]

StoreAndFinish(n) == Store(n) /\ PushFinish(n)

\* the store applies the update and answers with the note (200)
UpdateResponse ==
  /\ cmd.pc = "update"
  /\ IsLive(net.target)
  /\ StoreAndFinish(Edited(remote[net.target], net.content))
  /\ UNCHANGED <<now, accessToken, instToken, nEdits, vault, arg, ret, permissions>>

\* the store accepts the update (202): updateNote waits, then re-fetches
UpdateAccepted ==
  /\ cmd.pc = "update"
  /\ IsLive(net.target)
  /\ Store(Edited(remote[net.target], net.content))
  /\ cmd' = [cmd EXCEPT !.pc = "settle", !.timer = now + UPDATE_SETTLE_DELAY]
  /\ net' = NoReq
  /\ UNCHANGED <<now, doc, accessToken, instToken, reqs, writes, outcome, nEdits, vault, arg, ret, permissions>>

\* variant of SettleTimer in which updateNote does not wait before getNote
SettleTimerNoDelay ==
  /\ cmd.pc = "settle"
  /\ Await([cmd EXCEPT !.pc = "refetch"], GetNote(cmd), reqs)
  /\ UNCHANGED <<now, doc, remote, accessToken, instToken, writes, nEdits, vault, arg, ret, permissions>>

\* the delay of updateNote is over: getNote
SettleTimer ==
  /\ cmd.pc = "settle"
  /\ now >= cmd.timer
  /\ Await([cmd EXCEPT !.pc = "refetch"], GetNote(cmd), reqs)
  /\ UNCHANGED <<now, doc, remote, accessToken, instToken, writes, nEdits, vault, arg, ret, permissions>>

\* the re-fetched note is the result of the push
RefetchResponse ==
  /\ cmd.pc = "refetch"
  /\ IsLive(net.target)
  /\ PushFinish(remote[net.target])
  /\ UNCHANGED <<now, remote, accessToken, instToken, nEdits, vault, arg, ret, permissions>>

\* the store creates the note of pushNewNote
CreateResponse ==
  /\ cmd.pc = "create"
  /\ FreeIds # {}
  /\ \E tp \in TeamPaths :
       StoreAndFinish(LiveNote(NextId, net.content, ToISOString(now), Null, tp))
  /\ UNCHANGED <<now, accessToken, instToken, nEdits, vault, arg, ret, permissions>>

\* pullFromHackMD after the note is there: stamp the header, write back
PullFinish(note) ==
  /\ SetValue(updateLocalNote(note.content, updatedMetadata(note)))
  /\ Finish(cmd, "ok", reqs)

\* the note came back for pullFromHackMD
FetchResponse ==
  /\ cmd.pc = "fetch"
  /\ IsLive(net.target)
  /\ PullFinish(remote[net.target])
  /\ UNCHANGED <<now, remote, accessToken, instToken, nEdits, vault, arg, ret, permissions>>

(***************************************************************************)
(* The delete confirmation modal.                                          *)
(***************************************************************************)
\* the Cancel button (ignored while the modal is loading)
ModalCancel ==
  /\ cmd.pc = "modal"
  /\ Finish(cmd, "cancelled", reqs)
  /\ UNCHANGED <<now, doc, remote, accessToken, instToken, writes, nEdits, vault, arg, ret, permissions>>

\* variant of ModalConfirm whose click listener does not test the loading
\* flag
ModalConfirmWhileLoading ==
  /\ cmd.pc \in {"modal", "deleting"}
  /\ Len(reqs) < MaxReqs
  /\ Await([cmd EXCEPT !.pc = "deleting"], Request("DELETE", cmd.noteId.s, <<Blank>>), reqs)
  /\ UNCHANGED <<now, doc, remote, accessToken, instToken, writes, nEdits, vault, arg, ret, permissions>>

\* the Delete button: the click is ignored while loading (pc "deleting");
\* otherwise loading is set and onConfirm starts with client.deleteNote
ModalConfirm ==
  /\ cmd.pc = "modal"
  /\ Len(reqs) < MaxReqs
  /\ Await([cmd EXCEPT !.pc = "deleting"], Request("DELETE", cmd.noteId.s, <<Blank>>), reqs)
  /\ UNCHANGED <<now, doc, remote, accessToken, instToken, writes, nEdits, vault, arg, ret, permissions>>

\* onConfirm after deleteNote returned: cleanupHackMDMetadata(editor)
Cleanup ==
  IF HasFrontmatter(doc.text)
  THEN SetValue(cleanupHackMDMetadata(doc.text))
  ELSE doc' = doc /\ writes' = writes

\* the store deleted the note, or answers 404: onConfirm goes on with
\* cleanupHackMDMetadata and the modal closes
DeleteResponse ==
  /\ cmd.pc = "deleting"
  /\ remote' = IF IsLive(net.target)
               THEN [remote EXCEPT ![net.target] = DeletedNote]
               ELSE remote
  /\ Cleanup
  /\ Finish(cmd, "ok", reqs)
  /\ UNCHANGED <<now, accessToken, instToken, nEdits, vault, arg, ret, permissions>>

\* variant of DeleteFails in which onConfirm cleans the header before
\* deleteNote has returned
DeleteFailsAfterCleanup ==
  /\ cmd.pc = "deleting"
  /\ \E st \in FailStatuses :
       /\ cmd' = [cmd EXCEPT !.pc = "modal"]
       /\ net' = NoReq
       /\ outcome' = [op |-> cmd.op, mode |-> cmd.mode, kind |-> handleApiError(st)]
  /\ Cleanup
  /\ UNCHANGED <<now, remote, accessToken, instToken, reqs, nEdits, vault, arg, ret, permissions>>

\* deleteNote fails: the modal stays open and shows the error
DeleteFails ==
  /\ cmd.pc = "deleting"
  /\ \E st \in FailStatuses :
       /\ cmd' = [cmd EXCEPT !.pc = "modal"]
       /\ net' = NoReq
       /\ outcome' = [op |-> cmd.op, mode |-> cmd.mode, kind |-> handleApiError(st)]
  /\ UNCHANGED <<now, doc, remote, accessToken, instToken, reqs, writes, nEdits, vault, arg, ret, permissions>>

\* the Notice of the finished command goes away
Dismiss ==
  /\ cmd.pc = "done"
  /\ cmd' = Idle
  /\ outcome' = NoOutcome
  /\ reqs' = <<>>
  /\ writes' = 0
  /\ UNCHANGED <<now, doc, remote, accessToken, instToken, net, nEdits, vault, arg, ret, permissions>>

Next ==
  \/ Tick
  \/ SetToken
  \/ UserEditBody
  \/ UserAddKey
  \/ UserRemoveLastSync
  \/ RemoteEdit
  \/ RemoteDelete
  \/ Push
  \/ ForcePush
  \/ Pull
  \/ ForcePull
  \/ DeleteRemote
  \/ ProbeResponse
  \/ RequestFails
  \/ CheckResponse
  \/ UpdateResponse
  \/ UpdateAccepted
  \/ SettleTimer
  \/ RefetchResponse
  \/ CreateResponse
  \/ FetchResponse
  \/ ModalCancel
  \/ ModalConfirm
  \/ DeleteResponse
  \/ DeleteFails
  \/ Dismiss

Spec == Init /\ [][Next]_vars

TypeOK ==
  /\ now \in Clock
  /\ cmd.pc \in {"idle", "done", "probe", "check", "update", "settle", "refetch", "create",
                 "fetch", "modal", "deleting"}
  /\ instToken \in Tokens
  /\ accessToken \in Tokens
  /\ (net = NoReq) <=> (cmd.pc \in {"idle", "done", "settle", "modal"})

(***************************************************************************)
(* SpecGateway: deleteNote of the gateway, called up to MaxCalls times on  *)
(* a store that holds one note per id.  ret logs each call: the status the *)
(* server (or the transport, 0) answered and what deleteNote did with it.  *)
(***************************************************************************)
MaxCalls == 3

\* statuses requestUrl throws on besides 404
GatewayFailStatuses == {0, 401, 403, 429, 500, 503}

Thrown(type, code) == [ok |-> FALSE, error |-> type, statusCode |-> code]

Returned(status) == [ok |-> TRUE, status |-> status]

\* variant of request without the special handling of delete operations
requestNoDeleteCase(method, status) ==
  IF status \in 200..299 THEN Returned(status) ELSE Thrown(handleApiError(status), statusCode(status))

\* request(method, endpoint) when the server answers status: the response
\* it returns, or the error it throws
request(method, status) ==
  IF status \in 200..299 THEN Returned(status)
  ELSE IF method = "DELETE" /\ status = 404 THEN Returned(404)
  ELSE Thrown(handleApiError(status), statusCode(status))

\* a JSON object with the given keys, and a response body: its text is
\* empty or not, json is what response.json gives
Json(keys) == [ty |-> "obj", keys |-> keys]

Body(text, json) == [text |-> text, json |-> json]

\* request(...).data for a response that requestUrl did not throw on
responseData(status, body) ==
  IF status = 204 \/ body.text = "" THEN Null
  ELSE IF status = 202 THEN Null
  ELSE body.json

\* isHackMDUser(data)
isHackMDUser(data) ==
  /\ data # Null
  /\ data.ty = "obj"
  /\ "id" \in data.keys
  /\ "name" \in data.keys
  /\ "userPath" \in data.keys

\* what an operation returns
Value(data) == [ok |-> TRUE, value |-> data]

\* getMe() on a response with status and body
getMe(status, body) ==
  IF ~Truthy(responseData(status, body)) \/ ~isHackMDUser(responseData(status, body))
  THEN Thrown("AUTH_INVALID", Null)
  ELSE Value(responseData(status, body))

\* variant of getNote that returns response.data as it is
getNoteUnchecked(status, body) == Value(responseData(status, body))

\* getNote(noteId) on a response with status and body
getNote(status, body) ==
  IF ~Truthy(responseData(status, body))
  THEN Thrown("NOTE_NOT_FOUND", Null)
  ELSE Value(responseData(status, body))

\* createNote(options) on a response with status and body
createNoteResult(status, body) ==
  IF ~Truthy(responseData(status, body))
  THEN Thrown("UNKNOWN", Null)
  ELSE Value(responseData(status, body))

\* updateNote(noteId, options) on a response with status and body: after
\* 202 the result is that of getNote on the response with status2 and body2
updateNote(status, body, status2, body2) ==
  IF status = 202 THEN getNote(status2, body2)
  ELSE IF ~Truthy(responseData(status, body))
  THEN Thrown("UNKNOWN", Null)
  ELSE Value(responseData(status, body))

\* the end of deleteNote: true whatever the response is
DeleteResult(response) == IF response.ok THEN [ok |-> TRUE, value |-> TRUE] ELSE response

\* deleteNote(noteId) when the server answers status
deleteNote(status) == DeleteResult(request("DELETE", status))

\* what the server answers a delete of id with when the request gets through
DeleteAnswer(id) == IF IsLive(id) THEN 204 ELSE 404

InitGateway ==
  /\ now = 0
  /\ doc = [text |-> <<Txt("b0"), Blank>>, mtime |-> 0]
  /\ remote = [i \in NoteIds |-> LiveNote(i, <<Txt("b0"), Blank>>, ToISOString(0), Null, Null)]
  /\ accessToken = "tok"
  /\ instToken = "tok"
  /\ cmd = Idle
  /\ net = NoReq
  /\ reqs = <<>>
  /\ writes = 0
  /\ outcome = NoOutcome
  /\ nEdits = 0
  /\ permissions = DEFAULT_SETTINGS
  /\ vault = {}
  /\ arg = NoArg
  /\ ret = <<>>

\* one call of deleteNote(id), answered with status st
DeleteNoteAnswered(id, st) ==
  /\ remote' = IF st = 204 THEN [remote EXCEPT ![id] = DeletedNote] ELSE remote
  /\ ret' = Append(ret, [id |-> id, status |-> st, result |-> deleteNote(st)])

DeleteNoteCall ==
  /\ Len(ret) < MaxCalls
  /\ \E id \in NoteIds : \E st \in {DeleteAnswer(id)} \cup GatewayFailStatuses :
       DeleteNoteAnswered(id, st)
  /\ UNCHANGED <<now, doc, accessToken, instToken, cmd, net, reqs, writes, outcome, nEdits, vault, arg, permissions>>

NextGateway == DeleteNoteCall

SpecGateway == InitGateway /\ [][NextGateway]_vars

(***************************************************************************)
(* SpecVault: the create-from-URL command on a vault of Documents.  A file *)
(* of the vault is its path and its text; the path is "<title>.md" for     *)
(* k = 0 and "<title> (k).md" for k >= 1.  The vault starts with files the *)
(* user wrote, the store with a note somebody else wrote; arg is the URL   *)
(* the user entered for the command in flight.                             *)
(***************************************************************************)
MaxFiles == 6

File(title, k, text) == [title |-> title, k |-> k, text |-> text]

\* the URLs a user may enter for note id: canonical, with owner, foreign
UrlsOf(id) ==
  {UrlOf("hackmd.io", "", id), UrlOf("hackmd.io", "owner", id), UrlOf("example.com", "", id)}

\* a header the user typed into a file to link it to note id by hand
LinkedByHand(url) == combine(<<[k |-> "url", v |-> url]>>, <<Txt("b0"), Blank>>)

\* the files the user may have before the first import
UserFiles ==
  {File("T", 0, <<Txt("b0"), Blank>>), File("T", 1, <<Txt("b0"), Blank>>),
   File("Untitled", 0, <<Txt("b0"), Blank>>)}
  \cup {File("A", 0, LinkedByHand(UrlOf("hackmd.io", "", IdSeq[1]))),
        File("B", 0, LinkedByHand(UrlOf("hackmd.io", "owner", IdSeq[1])))}

\* a header as an exporting vault left it in the content of a note
ForeignHeader ==
  <<[k |-> "title", v |-> Str("T")], [k |-> "url", v |-> UrlOf("hackmd.io", "", "zz")],
    [k |-> "lastSync", v |-> ToISOString(1)], [k |-> "teamPath", v |-> Str("old")],
    [k |-> "tags", v |-> Str("x")]>>

\* the contents a note written elsewhere may have
ForeignContents ==
  {<<Txt("b0"), Blank>>,
   combine(<<[k |-> "title", v |-> Str("T")]>>, <<Txt("b0"), Blank>>),
   combine(ForeignHeader, <<Txt("b0"), Blank>>)}

InitVault ==
  /\ now = 0
  /\ doc = [text |-> <<Txt("b0"), Blank>>, mtime |-> 0]
  /\ \E c \in ForeignContents : \E tp \in TeamPaths :
       remote = [i \in NoteIds |-> LiveNote(i, c, ToISOString(0), Null, tp)]
  /\ accessToken \in Tokens
  /\ instToken = ""
  /\ cmd = Idle
  /\ net = NoReq
  /\ reqs = <<>>
  /\ writes = 0
  /\ outcome = NoOutcome
  /\ nEdits = 0
  /\ permissions = DEFAULT_SETTINGS
  /\ vault \in SUBSET UserFiles
  /\ arg = NoArg
  /\ ret = <<>>

\* the files whose cached frontmatter url is the canonical URL of noteId
FilesWithUrl(searchUrl) == {f \in vault : HeaderGet(f.text, "url") = searchUrl}

\* findNoteWithHackMDId(noteId): the files it may return, none when null
findNoteWithHackMDId(noteId) == FilesWithUrl(getUrlFromId(noteId))

\* the three deletes of prepareNoteContent
NonSyncFrontmatter(m) == MDelete(MDelete(MDelete(m, "url"), "lastSync"), "teamPath")

\* newMetadata of prepareNoteContent
newMetadata(noteId, noteTitle, teamPath) ==
  <<[k |-> "url", v |-> getUrlFromId(noteId)], [k |-> "title", v |-> noteTitle],
    [k |-> "lastSync", v |-> ToISOString(now)]>>
  \o TeamPathEntry(teamPath)

\* contentWithoutFrontmatter of prepareNoteContent
WithoutFrontmatter(noteContent, fm) ==
  IF fm.frontmatter.kind # "null" THEN SliceFrom(noteContent, fm.position) ELSE noteContent

\* variant of prepareNoteContent that merges the fresh metadata under the
\* header of the content, so that the keys found there win
prepareNoteContentInherit(noteContent, noteId, noteTitle, teamPath) ==
  combine(Spread(newMetadata(noteId, noteTitle, teamPath), HeaderOf(noteContent)),
          WithoutFrontmatter(noteContent, getFrontmatter(noteContent)))

\* prepareNoteContent(noteContent, noteId, noteTitle, teamPath)
prepareNoteContent(noteContent, noteId, noteTitle, teamPath) ==
  combine(Spread(NonSyncFrontmatter(HeaderOf(noteContent)),
                 newMetadata(noteId, noteTitle, teamPath)),
          WithoutFrontmatter(noteContent, getFrontmatter(noteContent)))

\* getAbstractFileByPath(path) finds a file
PathTaken(title, k) == \E f \in vault : f.title = title /\ f.k = k

\* the loop of generateUniqueFileName, counter at k
RECURSIVE NextFree(_, _)
NextFree(title, k) == IF PathTaken(title, k) THEN NextFree(title, k + 1) ELSE k

\* variant of generateUniqueFileName without the loop
generateFileNameUnchecked(baseTitle) == 0

\* generateUniqueFileName(baseTitle): the k of the path it returns
generateUniqueFileName(baseTitle) == NextFree(baseTitle, 0)

\* the command record of a create-from-URL for url
Importing(url, pc) ==
  [op |-> "import", mode |-> "normal", pc |-> pc, content |-> <<Blank>>,
   noteId |-> getIdFromUrl(url), timer |-> 0]

\* createNoteFromHackMDUrl once the client is there, up to getNote
ImportRun(c, log) ==
  IF c.noteId = Null THEN Finish(c, "INVALID_URL", log)
  ELSE IF findNoteWithHackMDId(c.noteId.s) # {} THEN Finish(c, "exists", log)
  ELSE Await([c EXCEPT !.pc = "ifetch"], GetNote(c), log)

\* the user enters url in the prompt: createNoteFromHackMDUrl(url) starts
\* with getClient
CreateFromUrlOf(url) ==
  /\ arg' = [fn |-> "createNoteFromHackMDUrl", url |-> url]
  /\ IF accessToken = ""
     THEN Finish(Importing(url, "idle"), "AUTH_REQUIRED", <<>>) /\ instToken' = instToken
     ELSE IF instToken = accessToken
     THEN ImportRun(Importing(url, "idle"), <<>>) /\ instToken' = instToken
     ELSE /\ instToken' = accessToken
          /\ Await(Importing(url, "iprobe"), Request("GET", "/me", <<Blank>>), <<>>)

CreateFromUrl ==
  /\ cmd.pc = "idle"
  /\ Cardinality(vault) < MaxFiles
  /\ \E id \in NoteIds : \E url \in UrlsOf(id) : CreateFromUrlOf(url)
  /\ UNCHANGED <<now, doc, remote, accessToken, writes, nEdits, vault, ret, permissions>>

\* the answer to getInstance's probe for a create-from-URL
ImportProbeResponse ==
  /\ cmd.pc = "iprobe"
  /\ \/ ImportRun(cmd, reqs) /\ instToken' = instToken
     \/ \E st \in FailStatuses :
          /\ instToken' = ""
          /\ Finish(cmd, handleApiError(st), reqs)
  /\ UNCHANGED <<now, doc, remote, accessToken, writes, nEdits, vault, arg, ret, permissions>>

\* vault.create(fileName, finalContent)
CreateFile(title, k, text) == vault' = vault \cup {File(title, k, text)}

\* the try block of createNoteFromHackMDUrl after getNote returned
ImportNote(noteData, noteTitle) ==
  /\ CreateFile(noteTitle.s, generateUniqueFileName(noteTitle.s),
                prepareNoteContent(noteData.content, cmd.noteId.s, noteTitle, noteData.teamPath))
  /\ Finish(cmd, "ok", reqs)

\* the note came back for createNoteFromHackMDUrl
ImportResponse ==
  /\ cmd.pc = "ifetch"
  /\ IsLive(net.target)
  /\ ImportNote(remote[net.target], OrElse(remote[net.target].title, Str("Untitled")))
  /\ UNCHANGED <<now, doc, remote, accessToken, instToken, writes, nEdits, arg, ret, permissions>>

\* getNote fails: handleNoteCreationError shows a Notice
ImportFails ==
  /\ cmd.pc = "ifetch"
  /\ \E st \in FailStatuses : Finish(cmd, handleApiError(st), reqs)
  /\ UNCHANGED <<now, doc, remote, accessToken, instToken, writes, nEdits, vault, arg, ret, permissions>>

NextVault ==
  \/ Tick
  \/ CreateFromUrl
  \/ ImportProbeResponse
  \/ ImportResponse
  \/ ImportFails
  \/ Dismiss

SpecVault == InitVault /\ [][NextVault]_vars

(***************************************************************************)
(* SpecCodec: the header merge of updateLocalNote and the frontmatter      *)
(* codec, applied to inputs drawn from bounded sets.  arg is the input,    *)
(* ret the result of the one application.                                  *)
(***************************************************************************)
MaxKeys == 2

MaxLines == 4

\* keys and values a header may hold
CodecKeys == {"url", "tags", "aliases"}

CodecValues == {Str("x"), Null, EmptyObj, EmptyList, SomeObj, SomeList}

\* the mappings of n distinct keys
HeadersOfLen(n) ==
  {m \in [1..n -> [k : CodecKeys, v : CodecValues]] : \A i, j \in 1..n : m[i].k = m[j].k => i = j}

Headers == UNION {HeadersOfLen(n) : n \in 0..MaxKeys}

\* body texts: empty, plain, beginning with blank lines, beginning with a
\* "---" line, a lone newline
Bodies ==
  {<<Blank>>, <<Txt("b0"), Blank>>, <<Blank, Txt("b0"), Blank>>,
   <<Blank, Blank, Txt("b0")>>, <<Delim, Txt("b0"), Blank>>, <<Blank, Blank>>}

\* the metadata push and pull hand to updateLocalNote
Metadatas ==
  {<<[k |-> "url", v |-> getUrlFromId(IdSeq[1])], [k |-> "title", v |-> Str(BaseName)],
     [k |-> "lastSync", v |-> ToISOString(0)]>> \o TeamPathEntry(tp) : tp \in TeamPaths}

MergeInputs ==
  {[fn |-> "updateLocalNote", baseContent |-> JoinHeader(m, <<Txt("b0"), Blank>>),
    metadata |-> md] : m \in Headers, md \in Metadatas}

RoundTripInputs ==
  {[fn |-> "getFrontmatter", frontmatter |-> m, content |-> b] :
     m \in Headers \ {<<>>}, b \in Bodies}

\* texts of up to MaxLines lines
TextLines == {Delim, Blank, Kv("k", Str("x")), Txt("s")}

Texts == UNION {[1..n -> TextLines] : n \in 1..MaxLines}

SplitInputs == {[fn |-> "split", content |-> t] : t \in Texts}

\* ids in accepted characters, hosts, owners and the urls made of them
AcceptedIds == {"n1", "a-b_1", "Zz9"}

UrlHosts == {"hackmd.io", "team.hackmd.io", "nothackmd.io", "example.com"}

Urls ==
  {UrlOf(h, o, id) : h \in UrlHosts, o \in {"", "owner"}, id \in AcceptedIds \cup {"", "n1?view=edit"}}
  \cup {Null, Str(""), Str("x")}

ResolverInputs ==
  {[fn |-> "getIdFromUrl", url |-> u] : u \in Urls}
  \cup {[fn |-> "getUrlFromId", noteId |-> id] : id \in AcceptedIds}

\* the methods request is called with and the statuses it may meet: none
\* (0), success, and the statuses requestUrl throws on
Methods == {"GET", "POST", "PATCH", "DELETE"}

Statuses == {0, 200, 202, 204, 400, 401, 403, 404, 418, 429, 500, 501, 502, 503, 504}

RequestInputs == {[fn |-> "request", method |-> m, status |-> st] : m \in Methods, st \in Statuses}

\* responses that requestUrl does not throw on: their statuses, and bodies
\* that are empty, null, objects of other shapes, users lacking a field, a
\* user and a note
OkStatuses == {200, 201, 202, 204}

JsonValues ==
  {Null, Json({}), Json({"incorrect"}), Json({"name", "userPath"}), Json({"id", "userPath"}),
   Json({"id", "name"}), Json({"id", "name", "userPath"}), Json({"id", "title", "content"})}

ResponseBodies == {Body("", Null)} \cup {Body("x", j) : j \in JsonValues}

OperationInputs ==
  {[fn |-> f, status |-> st, body |-> b, status2 |-> 200, body2 |-> Body("", Null)] :
     f \in {"getMe", "getNote", "createNote"}, st \in OkStatuses, b \in ResponseBodies}
  \cup
  {[fn |-> "updateNote", status |-> st, body |-> b, status2 |-> st2, body2 |-> b2] :
     st \in OkStatuses, b \in ResponseBodies, st2 \in {200, 204},
     b2 \in {Body("x", Null), Body("x", Json({"id", "title", "content"}))}}

InitCodec ==
  /\ now = 0
  /\ doc = [text |-> <<Txt("b0"), Blank>>, mtime |-> 0]
  /\ remote = [i \in NoteIds |-> FreeNote]
  /\ accessToken = ""
  /\ instToken = ""
  /\ cmd = Idle
  /\ net = NoReq
  /\ reqs = <<>>
  /\ writes = 0
  /\ outcome = NoOutcome
  /\ nEdits = 0
  /\ permissions = DEFAULT_SETTINGS
  /\ vault = {}
  /\ arg \in MergeInputs \cup RoundTripInputs \cup SplitInputs \cup ResolverInputs \cup RequestInputs
                \cup OperationInputs
  /\ ret = <<>>

\* updateLocalNote({content: baseContent, metadata})
ApplyMerge ==
  /\ arg.fn = "updateLocalNote"
  /\ ret = <<>>
  /\ ret' = <<updateLocalNote(arg.baseContent, arg.metadata)>>
  /\ UNCHANGED <<now, doc, remote, accessToken, instToken, cmd, net, reqs, writes, outcome, nEdits, vault, arg, permissions>>

\* getFrontmatter(combine(frontmatter, content))
ApplyRoundTrip ==
  /\ arg.fn = "getFrontmatter"
  /\ ret = <<>>
  /\ ret' = <<getFrontmatter(combine(arg.frontmatter, arg.content))>>
  /\ UNCHANGED <<now, doc, remote, accessToken, instToken, cmd, net, reqs, writes, outcome, nEdits, vault, arg, permissions>>

\* getFrontmatter(content)
ApplySplit ==
  /\ arg.fn = "split"
  /\ ret = <<>>
  /\ ret' = <<getFrontmatter(arg.content)>>
  /\ UNCHANGED <<now, doc, remote, accessToken, instToken, cmd, net, reqs, writes, outcome, nEdits, vault, arg, permissions>>

\* getIdFromUrl(url)
ApplyIdFromUrl ==
  /\ arg.fn = "getIdFromUrl"
  /\ ret = <<>>
  /\ ret' = <<getIdFromUrl(arg.url)>>
  /\ UNCHANGED <<now, doc, remote, accessToken, instToken, cmd, net, reqs, writes, outcome, nEdits, vault, arg, permissions>>

\* getIdFromUrl(getUrlFromId(noteId))
ApplyIdRoundTrip ==
  /\ arg.fn = "getUrlFromId"
  /\ ret = <<>>
  /\ ret' = <<getIdFromUrl(getUrlFromId(arg.noteId))>>
  /\ UNCHANGED <<now, doc, remote, accessToken, instToken, cmd, net, reqs, writes, outcome, nEdits, vault, arg, permissions>>

\* request(method, endpoint) answered with status
ApplyRequest ==
  /\ arg.fn = "request"
  /\ ret = <<>>
  /\ ret' = <<request(arg.method, arg.status)>>
  /\ UNCHANGED <<now, doc, remote, accessToken, instToken, cmd, net, reqs, writes, outcome, nEdits, vault, arg, permissions>>

\* getMe, getNote, createNote or updateNote on a response
ApplyOperation ==
  /\ arg.fn \in {"getMe", "getNote", "createNote", "updateNote"}
  /\ ret = <<>>
  /\ ret' = <<CASE arg.fn = "getMe" -> getMe(arg.status, arg.body)
               [] arg.fn = "getNote" -> getNote(arg.status, arg.body)
               [] arg.fn = "createNote" -> createNoteResult(arg.status, arg.body)
               [] arg.fn = "updateNote" ->
                    updateNote(arg.status, arg.body, arg.status2, arg.body2)>>
  /\ UNCHANGED <<now, doc, remote, accessToken, instToken, cmd, net, reqs, writes, outcome, nEdits, vault, arg, permissions>>

NextCodec ==
  \/ ApplyRequest
  \/ ApplyOperation
  \/ ApplyMerge
  \/ ApplyRoundTrip
  \/ ApplySplit
  \/ ApplyIdFromUrl
  \/ ApplyIdRoundTrip

SpecCodec == InitCodec /\ [][NextCodec]_vars

(***************************************************************************)
(* SpecOps: the life of one Document that starts without a header and is   *)
(* touched by the commands only: push, pull, delete, their forced variants *)
(* and copy-url.  The user retypes the body; other parties rewrite the     *)
(* remote note, header included.                                           *)
(***************************************************************************)
\* another party replaces the content of the remote note by a text with a
\* header of its own
RemoteRewrite ==
  /\ cmd.pc # "done"
  /\ nEdits < MaxEdits
  /\ \E id \in NoteIds :
       /\ IsLive(id)
       /\ \E content \in ForeignContents :
            /\ content # remote[id].content
            /\ remote' = [remote EXCEPT ![id] = Edited(remote[id], content)]
  /\ nEdits' = nEdits + 1
  /\ UNCHANGED <<now, doc, accessToken, instToken, cmd, net, reqs, writes, outcome, vault, arg, ret, permissions>>

NextOps ==
  \/ Tick
  \/ SetToken
  \/ UserEditBody
  \/ RemoteRewrite
  \/ Push
  \/ ForcePush
  \/ Pull
  \/ ForcePull
  \/ DeleteRemote
  \/ CopyUrl
  \/ ProbeResponse
  \/ RequestFails
  \/ CheckResponse
  \/ UpdateResponse
  \/ UpdateAccepted
  \/ SettleTimer
  \/ RefetchResponse
  \/ CreateResponse
  \/ FetchResponse
  \/ ModalCancel
  \/ ModalConfirm
  \/ DeleteResponse
  \/ DeleteFails
  \/ Dismiss

SpecOps == Init /\ [][NextOps]_vars

(***************************************************************************)
(* SpecUnsynced: the commands on a Document the user wrote by hand, whose  *)
(* header has no url or a url that gives no id.                            *)
(***************************************************************************)
\* headers without a url, and headers whose url gives no id: another
\* site, a text that is no URL, an empty value, a URL without id, a number;
\* and the header of a Document that a plugin before 2.0 pushed as the note
\* IdSeq[1]
OldFormHeader ==
  <<[k |-> "hackmd", v |-> OldForm(UrlOf("hackmd.io", "", IdSeq[1]), Str("T"), ToISOString(0))]>>

\* the store at the start: it holds the note that an old-form header names
RemoteOf(h) ==
  [i \in NoteIds |->
     IF h = OldFormHeader /\ i = IdSeq[1]
     THEN LiveNote(i, <<Txt("b0"), Blank>>, ToISOString(0), Null, Null)
     ELSE FreeNote]

UnsyncedHeaders ==
  {<<>>,
   OldFormHeader,
   <<[k |-> "tags", v |-> Str("x")]>>,
   <<[k |-> "url", v |-> UrlOf("example.com", "", IdSeq[1])], [k |-> "lastSync", v |-> ToISOString(0)]>>,
   <<[k |-> "url", v |-> Str("x")]>>,
   <<[k |-> "url", v |-> Null]>>,
   <<[k |-> "url", v |-> UrlOf("hackmd.io", "", "")]>>,
   <<[k |-> "url", v |-> SomeNum]>>}

InitUnsynced ==
  /\ now = 0
  /\ \E h \in UnsyncedHeaders :
       /\ doc = [text |-> JoinHeader(h, <<Txt("b0"), Blank>>), mtime |-> 0]
       /\ remote = RemoteOf(h)
  /\ accessToken \in Tokens
  /\ instToken = ""
  /\ cmd = Idle
  /\ net = NoReq
  /\ reqs = <<>>
  /\ writes = 0
  /\ outcome = NoOutcome
  /\ nEdits = 0
  /\ permissions = DEFAULT_SETTINGS
  /\ vault = {}
  /\ arg = NoArg
  /\ ret = <<>>

\* the permission dropdowns of the settings tab
PermissionSettings ==
  {DEFAULT_SETTINGS,
   [defaultReadPermission |-> "guest", defaultWritePermission |-> "signed_in",
    defaultCommentPermission |-> "everyone"],
   [defaultReadPermission |-> "signed_in", defaultWritePermission |-> "owner",
    defaultCommentPermission |-> "owners"]}

\* the user picks other default permissions in the settings tab
SetPermissions ==
  /\ nEdits < MaxEdits
  /\ \E s \in PermissionSettings : s # permissions /\ permissions' = s
  /\ nEdits' = nEdits + 1
  /\ UNCHANGED <<now, doc, remote, accessToken, instToken, cmd, net, reqs, writes, outcome, vault, arg, ret>>

NextUnsynced ==
  \/ Tick
  \/ SetToken
  \/ SetPermissions
  \/ Push
  \/ ForcePush
  \/ Pull
  \/ ForcePull
  \/ DeleteRemote
  \/ CopyUrl
  \/ ProbeResponse
  \/ RequestFails
  \/ CheckResponse
  \/ UpdateResponse
  \/ UpdateAccepted
  \/ SettleTimer
  \/ RefetchResponse
  \/ CreateResponse
  \/ FetchResponse
  \/ ModalCancel
  \/ ModalConfirm
  \/ DeleteResponse
  \/ DeleteFails
  \/ Dismiss

SpecUnsynced == InitUnsynced /\ [][NextUnsynced]_vars

(***************************************************************************)
(* SpecSession: the session accessor HackMDClient.getInstance and the      *)
(* static fields behind it.  Commands are asynchronous callbacks: a second *)
(* caller may enter getInstance while the probe of the first is in flight. *)
(* instToken is the static accessToken; arg holds the static instance (the *)
(* number of the call that constructed it, and its token), the instances   *)
(* whose probe has succeeded, and where each caller stands.  nEdits counts *)
(* the calls made, MaxCalls at most.                                       *)
(***************************************************************************)
Callers == {1, 2}

SessionTokens == {"", "tok", "tok2"}

Operations == {"getNote", "createNote", "updateNote", "deleteNote"}

NoInstance == [id |-> 0, token |-> ""]

\* where a caller stands: in call number n of the run, made with token, of
\* which instance it awaits the probe (made), which it was handed (client)
Call(pc, token, made, client, error) ==
  [pc |-> pc, token |-> token, n |-> nEdits + 1, made |-> made, client |-> client,
   error |-> error]

InitSession ==
  /\ now = 0
  /\ doc = [text |-> <<Txt("b0"), Blank>>, mtime |-> 0]
  /\ remote = [i \in NoteIds |-> FreeNote]
  /\ accessToken = ""
  /\ instToken = ""
  /\ cmd = Idle
  /\ net = NoReq
  /\ reqs = <<>>
  /\ writes = 0
  /\ outcome = NoOutcome
  /\ nEdits = 0
  /\ permissions = DEFAULT_SETTINGS
  /\ vault = {}
  /\ arg = [fn |-> "getInstance", instance |-> NoInstance, verified |-> {},
            call |-> [p \in Callers |-> [Call("idle", "", 0, 0, "none") EXCEPT !.n = 0]]]
  /\ ret = <<>>

\* if (!accessToken) throw new HackMDError(AUTH_REQUIRED)
getInstanceNoToken(p, token) ==
  /\ arg' = [arg EXCEPT !.call[p] = Call("failed", token, 0, 0, "AUTH_REQUIRED")]
  /\ instToken' = instToken
  /\ reqs' = reqs

\* return HackMDClient.instance
getInstanceCached(p, token) ==
  /\ arg' = [arg EXCEPT !.call[p] = Call("got", token, 0, arg.instance.id, "none")]
  /\ instToken' = instToken
  /\ reqs' = reqs

\* new HackMDClient(accessToken); await HackMDClient.instance.getMe()
getInstanceProbe(p, token) ==
  /\ arg' = [arg EXCEPT !.instance = [id |-> nEdits + 1, token |-> token],
                        !.call[p] = Call("probe", token, nEdits + 1, 0, "none")]
  /\ instToken' = token
  /\ reqs' = Append(reqs, [method |-> "GET", target |-> "/me", token |-> token])

\* getInstance(accessToken), up to its await
getInstance(p, token) ==
  IF token = "" THEN getInstanceNoToken(p, token)
  ELSE IF arg.instance # NoInstance /\ instToken = token THEN getInstanceCached(p, token)
  ELSE getInstanceProbe(p, token)

GetInstanceCall ==
  /\ nEdits < MaxCalls
  /\ \E p \in Callers : \E token \in SessionTokens :
       /\ arg.call[p].pc \in {"idle", "got", "failed"}
       /\ getInstance(p, token)
  /\ nEdits' = nEdits + 1
  /\ UNCHANGED <<now, doc, remote, accessToken, cmd, net, writes, outcome, vault, ret, permissions>>

\* getMe() returned: return HackMDClient.instance
ProbeSucceeded(p) ==
  /\ arg' = [arg EXCEPT !.verified = @ \cup {arg.call[p].made},
                        !.call[p] = [arg.call[p] EXCEPT !.pc = "got", !.client = arg.instance.id]]
  /\ instToken' = instToken

\* variant of ProbeFailed that rethrows without resetInstance
ProbeFailedKeepSession(p, status) ==
  /\ arg' = [arg EXCEPT !.call[p].pc = "failed", !.call[p].error = handleApiError(status)]
  /\ instToken' = instToken

\* catch (error) { HackMDClient.resetInstance(); throw error; }
ProbeFailed(p, status) ==
  /\ arg' = [arg EXCEPT !.call[p].pc = "failed", !.call[p].error = handleApiError(status)]
  /\ instToken' = ""

ProbeAnswer ==
  /\ \E p \in Callers :
       /\ arg.call[p].pc = "probe"
       /\ \/ ProbeSucceeded(p)
          \/ \E status \in FailStatuses : ProbeFailed(p, status)
  /\ UNCHANGED <<now, doc, remote, accessToken, cmd, net, reqs, writes, outcome, nEdits, vault, ret, permissions>>

\* a caller that holds a client calls getNote, createNote, updateNote or
\* deleteNote on it
OperationCall ==
  /\ nEdits < MaxCalls
  /\ \E p \in Callers : \E op \in Operations :
       /\ arg.call[p].pc = "got"
       /\ arg' = [arg EXCEPT !.call[p].pc = "op"]
       /\ reqs' = Append(reqs, [method |-> op, target |-> "/notes", token |-> arg.call[p].token])
  /\ nEdits' = nEdits + 1
  /\ UNCHANGED <<now, doc, remote, accessToken, instToken, cmd, net, writes, outcome, vault, ret, permissions>>

\* request's catch: throw this.handleApiError(error)
OperationFailed(p, status) ==
  /\ arg' = [arg EXCEPT !.call[p].pc = "failed", !.call[p].error = handleApiError(status)]
  /\ instToken' = instToken

OperationAnswer ==
  /\ \E p \in Callers :
       /\ arg.call[p].pc = "op"
       /\ \/ arg' = [arg EXCEPT !.call[p].pc = "got"] /\ instToken' = instToken
          \/ \E status \in FailStatuses : OperationFailed(p, status)
  /\ UNCHANGED <<now, doc, remote, accessToken, cmd, net, reqs, writes, outcome, nEdits, vault, ret, permissions>>

NextSession ==
  \/ GetInstanceCall
  \/ ProbeAnswer
  \/ OperationCall
  \/ OperationAnswer

SpecSession == InitSession /\ [][NextSession]_vars

(***************************************************************************)
(* SpecOverlap: the push command invoked a second time while its first     *)
(* invocation is suspended on a request.  createCallback starts the        *)
(* callback on every invocation; arg holds the second invocation.          *)
(***************************************************************************)
\* the state of the second invocation of pushToHackMD
Second(pc, mode, p, req) ==
  [fn |-> "pushToHackMD", pc |-> pc, mode |-> mode, content |-> p.content,
   noteId |-> p.noteId, net |-> req, kind |-> "none"]

\* pushToHackMD up to its first request, for the second invocation
SecondStart(mode, p) ==
  IF p.noteId # Null
  THEN IF mode = "normal"
       THEN Second("check", mode, p, Request("GET", p.noteId.s, <<Blank>>))
       ELSE Second("update", mode, p, Request("PATCH", p.noteId.s, p.content))
  ELSE Second("create", mode, p, createNote(contentWithTitle(p.content)))

\* the pcs at which the first invocation is suspended with a client
Suspended == {"check", "update", "settle", "refetch", "create"}

\* the user invokes push again while the first invocation is suspended:
\* getClient answers from the cache
SecondPush ==
  /\ cmd.op = "push"
  /\ cmd.pc \in Suspended
  /\ arg = NoArg
  /\ accessToken # ""
  /\ instToken = accessToken
  /\ prepareSync(doc.text).noteId # TypeError
  /\ \E mode \in {"normal", "force"} : arg' = SecondStart(mode, prepareSync(doc.text))
  /\ reqs' = Append(reqs, LogEntry(arg'.net))
  /\ UNCHANGED <<now, doc, remote, accessToken, instToken, cmd, net, writes, outcome, nEdits, vault, ret, permissions>>

\* the second invocation ends
SecondDone(kind) == arg' = [arg EXCEPT !.pc = "done", !.kind = kind, !.net = NoReq]

\* the second invocation writes back and ends
SecondFinish(result) ==
  /\ SetValue(updateLocalNote(arg.content, updatedMetadata(result)))
  /\ SecondDone("ok")

\* the note came back for the second invocation's checkPushConflicts
SecondCheckResponse ==
  /\ arg # NoArg
  /\ arg.pc = "check"
  /\ IsLive(arg.net.target)
  /\ IF checkPushConflicts(doc.text, remote[arg.net.target]) # ""
     THEN SecondDone(checkPushConflicts(doc.text, remote[arg.net.target])) /\ reqs' = reqs
     ELSE /\ arg' = [arg EXCEPT !.pc = "update", !.net = Request("PATCH", arg.noteId.s, arg.content)]
          /\ reqs' = Append(reqs, LogEntry(arg'.net))
  /\ UNCHANGED <<now, doc, remote, accessToken, instToken, cmd, net, writes, outcome, nEdits, vault, ret, permissions>>

\* the store applies the second invocation's update and answers
SecondUpdateResponse ==
  /\ arg # NoArg
  /\ arg.pc = "update"
  /\ IsLive(arg.net.target)
  /\ Store(Edited(remote[arg.net.target], arg.net.content))
  /\ SecondFinish(Edited(remote[arg.net.target], arg.net.content))
  /\ UNCHANGED <<now, accessToken, instToken, cmd, net, reqs, outcome, nEdits, vault, ret, permissions>>

\* the store creates the note of the second invocation's pushNewNote
SecondCreateResponse ==
  /\ arg # NoArg
  /\ arg.pc = "create"
  /\ FreeIds # {}
  /\ \E tp \in TeamPaths :
       /\ Store(LiveNote(NextId, arg.net.content, ToISOString(now), Null, tp))
       /\ SecondFinish(LiveNote(NextId, arg.net.content, ToISOString(now), Null, tp))
  /\ UNCHANGED <<now, accessToken, instToken, cmd, net, reqs, outcome, nEdits, vault, ret, permissions>>

\* a request of the second invocation fails
SecondFails ==
  /\ arg # NoArg
  /\ arg.pc \in {"check", "update", "create"}
  /\ \E st \in FailStatuses : SecondDone(handleApiError(st))
  /\ UNCHANGED <<now, doc, remote, accessToken, instToken, cmd, net, reqs, writes, outcome, nEdits, vault, ret, permissions>>

NextOverlap ==
  \/ Tick
  \/ Push
  \/ ForcePush
  \/ ProbeResponse
  \/ RequestFails
  \/ CheckResponse
  \/ UpdateResponse
  \/ UpdateAccepted
  \/ SettleTimer
  \/ RefetchResponse
  \/ CreateResponse
  \/ Dismiss
  \/ SecondPush
  \/ SecondCheckResponse
  \/ SecondUpdateResponse
  \/ SecondCreateResponse
  \/ SecondFails

SpecOverlap == Init /\ [][NextOverlap]_vars

(***************************************************************************)
(* SpecRace: a push and another party's edits of the remote note.  The     *)
(* note that checkPushConflicts fetched is kept in ret.                    *)
(***************************************************************************)
\* checkPushConflicts: const note = await client.getNote(noteId), then the
\* comparison on that note
CheckFetch ==
  /\ cmd.pc = "check"
  /\ IsLive(net.target)
  /\ ret' = <<remote[net.target]>>
  /\ CheckDone(checkPushConflicts(doc.text, remote[net.target]))
  /\ UNCHANGED <<now, doc, remote, accessToken, instToken, writes, nEdits, vault, arg, permissions>>

NextRace ==
  \/ Tick
  \/ RemoteEdit
  \/ Push
  \/ ForcePush
  \/ ProbeResponse
  \/ RequestFails
  \/ CheckFetch
  \/ UpdateResponse
  \/ UpdateAccepted
  \/ SettleTimer
  \/ RefetchResponse
  \/ CreateResponse
  \/ Dismiss

SpecRace == Init /\ [][NextRace]_vars

(***************************************************************************)
(* Vocabulary of the properties.                                           *)
(***************************************************************************)
Conflicts == {"SYNC_CONFLICT_REMOTE", "SYNC_CONFLICT_LOCAL", "SYNC_CONFLICT_NO_LAST_SYNC"}

Reserved == {"url", "title", "lastSync", "teamPath"}

\* the id the header url of a text resolves to, Null for an Unsynced text
LinkOf(text) == NoteIdOf(HeaderGet(text, "url"))

IsLinked(text) == LinkOf(text) \notin {Null, TypeError}

LastSyncOf(text) == HeaderGet(text, "lastSync")

\* the last-modification time of a remote note
RemoteModTime(note) == GetTime(OrElse(note.lastChangedAt, note.createdAt))

\* the requests of a log that change the remote store
Mutating(log) == {i \in 1..Len(log) : log[i].method \in {"POST", "PATCH", "DELETE"}}

\* the requests of a log that fetch a note
NoteFetches(log) == {i \in 1..Len(log) : log[i].method = "GET" /\ log[i].target # "/me"}

\* this step runs the body of command op up to its first request: the
\* client is there, from the cache or from a probe that succeeded
Started(op, mode) ==
  /\ cmd'.op = op
  /\ cmd'.mode = mode
  /\ cmd'.pc # cmd.pc
  /\ \/ cmd.pc = "idle" /\ accessToken # "" /\ instToken = accessToken
     \/ cmd.pc = "probe" /\ instToken' = instToken

\* this step ends the command in flight
Ends == cmd.pc # "done" /\ cmd'.pc = "done"

\* every key of header mapping m outside Reserved is in header mapping n
\* with the same value
KeepsUnrelated(m, n) ==
  \A k \in MKeys(m) \ Reserved : MHas(n, k) /\ MGet(n, k) = MGet(m, k)

(***************************************************************************)
(* C1. Push conflict check.                                                *)
(***************************************************************************)
\* C1: when the note comes back for the conflict check of a normal push and
\* the header has a lastSync, the push is rejected as a remote-side conflict
\* with no update request sent if the remote last-modification time is
\* later than lastSync by more than SYNC_TIME_MARGIN, and it goes on to the
\* update if the remote last-modification time is at or before lastSync.
C1_PushConflictCheck ==
  [][ (CheckResponse /\ Truthy(LastSyncOf(doc.text))) =>
        /\ DiffExceeds(RemoteModTime(remote[net.target]), GetTime(LastSyncOf(doc.text)),
                       SYNC_TIME_MARGIN)
             => /\ cmd'.pc = "done"
                /\ outcome'.kind = "SYNC_CONFLICT_REMOTE"
                /\ Count(reqs', "PATCH") = 0
        /\ RemoteModTime(remote[net.target]).n <= GetTime(LastSyncOf(doc.text)).n
             => cmd'.pc = "update" ]_vars

(***************************************************************************)
(* C2. Pull conflict check.                                                *)
(***************************************************************************)
\* C2: a normal pull of a Linked Document with a lastSync ends as a
\* local-side conflict, the Document untouched, exactly when the file
\* modification time is later than lastSync by more than SYNC_TIME_MARGIN;
\* otherwise it goes on to fetch the note.
C2_PullConflictCheck ==
  [][ (Started("pull", "normal") /\ IsLinked(doc.text) /\ Truthy(LastSyncOf(doc.text))) =>
        IF doc.mtime - GetTime(LastSyncOf(doc.text)).n > SYNC_TIME_MARGIN
        THEN /\ cmd'.pc = "done"
             /\ outcome'.kind = "SYNC_CONFLICT_LOCAL"
             /\ doc' = doc
             /\ writes' = 0
        ELSE /\ cmd'.pc = "fetch"
             /\ outcome'.kind \notin Conflicts ]_vars

\* a normal pull was rejected as a local-side conflict
C2_Witness ==
  /\ cmd.pc = "done"
  /\ outcome = [op |-> "pull", mode |-> "normal", kind |-> "SYNC_CONFLICT_LOCAL"]
  /\ doc.mtime - GetTime(LastSyncOf(doc.text)).n > SYNC_TIME_MARGIN

(***************************************************************************)
(* C3. Conflict margin boundary.                                           *)
(***************************************************************************)
\* C3: the push conflict check passes when the remote last-modification
\* time is lastSync + SYNC_TIME_MARGIN - 1 and fails when it is
\* lastSync + SYNC_TIME_MARGIN + 1.
C3_MarginBoundary ==
  [][ (CheckResponse /\ Truthy(LastSyncOf(doc.text))) =>
        /\ RemoteModTime(remote[net.target]).n
             = GetTime(LastSyncOf(doc.text)).n + SYNC_TIME_MARGIN - 1
             => cmd'.pc = "update"
        /\ RemoteModTime(remote[net.target]).n
             = GetTime(LastSyncOf(doc.text)).n + SYNC_TIME_MARGIN + 1
             => cmd'.pc = "done" /\ outcome'.kind \in Conflicts ]_vars

(***************************************************************************)
(* C4. Missing lastSync is a conflict unless forced.                       *)
(***************************************************************************)
\* C4: for a Linked Document whose header has no lastSync, a normal push is
\* rejected once the note is back and no update request goes out, a normal
\* pull is rejected with the Document untouched, and the forced push and
\* the forced pull go on to their update and fetch requests.
C4_MissingLastSync ==
  [][ /\ (CheckResponse /\ ~Truthy(LastSyncOf(doc.text))) =>
           /\ cmd'.pc = "done"
           /\ outcome'.kind = "SYNC_CONFLICT_NO_LAST_SYNC"
           /\ Count(reqs', "PATCH") = 0
      /\ (IsLinked(doc.text) /\ ~Truthy(LastSyncOf(doc.text))) =>
           /\ Started("pull", "normal") =>
                /\ cmd'.pc = "done"
                /\ outcome'.kind = "SYNC_CONFLICT_NO_LAST_SYNC"
                /\ doc' = doc
                /\ writes' = 0
           /\ Started("push", "force") => cmd'.pc = "update" /\ net'.method = "PATCH"
           /\ Started("pull", "force") => cmd'.pc = "fetch" /\ net'.method = "GET" ]_vars

\* a normal push of a Linked Document without lastSync was rejected
C4_Witness ==
  /\ cmd.pc = "done"
  /\ outcome = [op |-> "push", mode |-> "normal", kind |-> "SYNC_CONFLICT_NO_LAST_SYNC"]
  /\ IsLinked(doc.text)
  /\ ~MHas(HeaderOf(doc.text), "lastSync")

(***************************************************************************)
(* C5. No partial writes on conflict.                                      *)
(***************************************************************************)
\* C5: the step that rejects a push or a pull by its conflict check changes
\* neither the Document nor the remote store, and the command it ends has
\* written nothing to the Document and has sent no create, update or delete
\* request.
C5_NoPartialWrites ==
  [][ (Ends /\ outcome'.kind \in Conflicts) =>
        /\ cmd'.op \in {"push", "pull"}
        /\ doc' = doc
        /\ remote' = remote
        /\ writes' = 0
        /\ Mutating(reqs') = {} ]_vars

\* a normal push was rejected as a remote-side conflict
C5_Witness ==
  /\ cmd.pc = "done"
  /\ outcome = [op |-> "push", mode |-> "normal", kind |-> "SYNC_CONFLICT_REMOTE"]
  /\ NoteFetches(reqs) # {}

(***************************************************************************)
(* C6. Forced push.                                                        *)
(***************************************************************************)
\* C6: a forced push of a Linked Document sends its update request, with
\* the text just read, without fetching the note first, whatever lastSync
\* and the modification times are; when the store takes the update the
\* note's content is the text read at the start, and the push succeeds
\* once the store has answered with the note.
C6_ForcedPush ==
  [][ /\ (Started("push", "force") /\ IsLinked(doc.text)) =>
           /\ cmd'.pc = "update"
           /\ net' = Request("PATCH", LinkOf(doc.text).s, doc.text)
           /\ cmd'.content = doc.text
           /\ NoteFetches(reqs') = {}
      /\ (cmd.mode = "force" /\ (UpdateResponse \/ UpdateAccepted)) =>
           remote'[cmd.noteId.s].content = cmd.content
      /\ (cmd.mode = "force" /\ (UpdateResponse \/ RefetchResponse)) =>
           /\ cmd'.pc = "done"
           /\ outcome'.kind = "ok" ]_vars

\* a forced push succeeded for a Document a normal push rejects: its
\* header had no lastSync
C6_Witness ==
  /\ cmd.pc = "done"
  /\ outcome = [op |-> "push", mode |-> "force", kind |-> "ok"]
  /\ IsLinked(cmd.content)
  /\ ~MHas(HeaderOf(cmd.content), "lastSync")
  /\ remote[cmd.noteId.s].content = cmd.content

(***************************************************************************)
(* C7. Forced pull and the header keys of the Document.                    *)
(***************************************************************************)
\* C7: when a forced pull succeeds the body of the Document is the body of
\* the remote note's content, and every header key of the Document outside
\* url, title, lastSync and teamPath is still there with its value.
C7_ForcedPullKeepsKeys ==
  [][ (FetchResponse /\ cmd.mode = "force") =>
        /\ getFrontmatter(doc'.text).content = getFrontmatter(remote[net.target].content).content
        /\ KeepsUnrelated(HeaderOf(doc.text), HeaderOf(doc'.text)) ]_vars

(***************************************************************************)
(* C8. Create-vs-update decision of push.                                  *)
(***************************************************************************)
\* C8: a push sends a create request only for a text that was Unsynced when
\* read and an update request only for a Linked one, to the id its url
\* resolves to, and never more than one of them; a push that succeeds has
\* sent exactly that one request, and leaves a header with url, title and
\* lastSync whose url is the canonical URL of the id of the returned note.
C8_CreateOrUpdate ==
  [][ /\ cmd'.op = "push" =>
           /\ Cardinality(Mutating(reqs')) <= 1
           /\ \A i \in Mutating(reqs') :
                IF IsLinked(cmd'.content)
                THEN reqs'[i] = [method |-> "PATCH", target |-> LinkOf(cmd'.content).s]
                ELSE reqs'[i] = [method |-> "POST", target |-> "/notes"]
      /\ (Ends /\ cmd'.op = "push" /\ outcome'.kind = "ok") =>
           /\ Cardinality(Mutating(reqs')) = 1
           /\ {"url", "title", "lastSync"} \subseteq MKeys(HeaderOf(doc'.text))
           /\ IF IsLinked(cmd.content)
              THEN HeaderGet(doc'.text, "url") = getUrlFromId(LinkOf(cmd.content).s)
              ELSE \E id \in NoteIds :
                     /\ remote[id].state = "free"
                     /\ remote'[id].state = "live"
                     /\ HeaderGet(doc'.text, "url") = getUrlFromId(id) ]_vars

\* a push of a Linked Document succeeded with one update request
C8_Witness ==
  /\ cmd.pc = "done"
  /\ outcome.op = "push"
  /\ outcome.kind = "ok"
  /\ IsLinked(cmd.content)
  /\ Count(reqs, "PATCH") = 1
  /\ Count(reqs, "POST") = 0

(***************************************************************************)
(* C9. Delete (Scenario D).                                                *)
(***************************************************************************)
\* C9: a confirmation sends exactly one delete request, for the id the
\* header url resolved to, and nothing else is sent until it is answered;
\* a not-found answer is never reported as a failure; when the delete
\* succeeds the note is gone from the store, the header has none of url,
\* title, lastSync and teamPath, and every other header key is retained
\* with its value.
C9_Delete ==
  [][ /\ (cmd.pc = "modal" /\ cmd'.pc = "deleting") =>
           reqs' = Append(reqs, [method |-> "DELETE", target |-> LinkOf(cmd.content).s])
      /\ cmd.pc = "deleting" => reqs' = reqs
      /\ (cmd.pc = "deleting" /\ cmd'.pc = "modal") => outcome'.kind # "NOTE_NOT_FOUND"
      /\ (cmd.pc = "deleting" /\ Ends) =>
           /\ outcome'.kind = "ok"
           /\ reqs'[Len(reqs')] = [method |-> "DELETE", target |-> cmd.noteId.s]
           /\ ~IsLive(cmd.noteId.s)'
           /\ MKeys(HeaderOf(doc'.text)) \cap Reserved = {}
           /\ KeepsUnrelated(HeaderOf(doc.text), HeaderOf(doc'.text)) ]_vars

\* a confirmed delete succeeded and a key of the user's is still in the
\* header
C9_Witness ==
  /\ cmd.pc = "done"
  /\ outcome = [op |-> "delete", mode |-> "normal", kind |-> "ok"]
  /\ Count(reqs, "DELETE") = 1
  /\ MKeys(HeaderOf(doc.text)) = {"tags"}

(***************************************************************************)
(* C10. Delete requires confirmation.                                      *)
(***************************************************************************)
\* C10: a delete request goes out only in the step in which the user
\* confirms in the modal; the delete command writes to the Document only
\* after a confirmed request was answered; and a cancel changes neither the
\* Document nor the remote store and leaves the Document Linked.
C10_DeleteNeedsConfirmation ==
  [][ /\ Count(reqs', "DELETE") > Count(reqs, "DELETE") =>
           cmd.pc = "modal" /\ cmd'.pc = "deleting"
      /\ (cmd'.op = "delete" /\ (doc' # doc \/ writes' # writes)) =>
           \/ cmd.pc = "deleting" /\ Ends
           \/ cmd' = cmd /\ writes' = writes
      /\ (cmd.pc = "modal" /\ Ends) =>
           /\ outcome'.kind = "cancelled"
           /\ doc' = doc
           /\ remote' = remote
           /\ writes' = 0
           /\ IsLinked(doc'.text) ]_vars

\* the user cancelled the modal: the Document is Linked, the note is there
C10_Witness ==
  /\ cmd.pc = "done"
  /\ outcome = [op |-> "delete", mode |-> "normal", kind |-> "cancelled"]
  /\ IsLinked(doc.text)
  /\ IsLive(LinkOf(doc.text).s)
  /\ Count(reqs, "DELETE") = 0

(***************************************************************************)
(* C11. Idempotent delete at the gateway.                                  *)
(***************************************************************************)
\* C11: deleteNote returns success when the server deleted the note (204)
\* and when it answers not-found (404), so a delete that follows a
\* successful delete of the same id and is answered not-found succeeds
\* too; a call answered 401, 403, 429, 5xx or not at all throws the error
\* handleApiError gives for it.
C11_IdempotentDelete ==
  /\ \A i \in 1..Len(ret) :
       /\ ret[i].status \in {204, 404} => ret[i].result = [ok |-> TRUE, value |-> TRUE]
       /\ ret[i].status \in GatewayFailStatuses =>
            /\ ~ret[i].result.ok
            /\ ret[i].result.error = handleApiError(ret[i].status)
            /\ ret[i].result.error # "NOTE_NOT_FOUND"
  /\ \A i \in 1..(Len(ret) - 1) :
       (ret[i].result.ok /\ ret[i + 1].id = ret[i].id
          /\ ret[i + 1].status \notin GatewayFailStatuses)
         => ret[i + 1].status = 404 /\ ret[i + 1].result.ok

\* the same id deleted twice in a row: deleted, then not found, both
\* calls returning success
C11_Witness ==
  /\ Len(ret) >= 2
  /\ ret[1].status = 204
  /\ ret[2].status = 404
  /\ ret[2].id = ret[1].id
  /\ ret[1].result.ok
  /\ ret[2].result.ok

(***************************************************************************)
(* Vocabulary of the create-from-URL properties.                           *)
(***************************************************************************)
\* this step runs createNoteFromHackMDUrl up to its first request: the
\* client is there, from the cache or from a probe that succeeded
ImportStarted ==
  /\ cmd'.op = "import"
  /\ cmd'.pc # cmd.pc
  /\ \/ cmd.pc = "idle" /\ accessToken # "" /\ instToken = accessToken
     \/ cmd.pc = "iprobe" /\ instToken' = instToken

\* the files this step adds to the vault
NewFiles == vault' \ vault

\* the note the import in flight asked for
Imported == remote[cmd.noteId.s]

(***************************************************************************)
(* C12. Create-from-URL duplicate guard.                                   *)
(***************************************************************************)
\* C12: when create-from-URL runs for a URL the resolver accepts and some
\* file of the vault has that URL as its header url, it ends reporting the
\* existing file, creates no file and fetches no note; and no step leaves
\* two files with the same url that were not both there before.
C12_DuplicateGuard ==
  [][ /\ (ImportStarted /\ getIdFromUrl(arg'.url) # Null /\ FilesWithUrl(arg'.url) # {}) =>
           /\ cmd'.pc = "done"
           /\ outcome'.kind = "exists"
           /\ vault' = vault
           /\ NoteFetches(reqs') = {}
      /\ \A f, g \in vault' :
           (f # g /\ Truthy(HeaderGet(f.text, "url"))
              /\ HeaderGet(f.text, "url") = HeaderGet(g.text, "url"))
             => f \in vault /\ g \in vault ]_vars

(***************************************************************************)
(* C13. Create-from-URL stamps fresh sync metadata.                        *)
(***************************************************************************)
\* C13 as stated: the file created from a remote note has url the canonical
\* URL of the resolved id, title the remote title, lastSync the creation
\* time, teamPath exactly when the note has one; url, lastSync and teamPath
\* of the content's own header are not inherited and its other keys are
\* kept with their values.
C13_FreshMetadataAsStated ==
  [][ ImportResponse =>
        \E f \in NewFiles :
          /\ HeaderGet(f.text, "url") = getUrlFromId(Imported.id)
          /\ HeaderGet(f.text, "title") = Imported.title
          /\ HeaderGet(f.text, "lastSync") = ToISOString(now)
          /\ IF Truthy(Imported.teamPath)
             THEN HeaderGet(f.text, "teamPath") = Imported.teamPath
             ELSE ~MHas(HeaderOf(f.text), "teamPath")
          /\ KeepsUnrelated(HeaderOf(Imported.content), HeaderOf(f.text)) ]_vars

\* C13 amended: as above, but title is the remote title when that is not
\* empty and "Untitled" when it is.
C13_FreshMetadata ==
  [][ ImportResponse =>
        \E f \in NewFiles :
          /\ HeaderGet(f.text, "url") = getUrlFromId(Imported.id)
          /\ HeaderGet(f.text, "title")
               = (IF Imported.title = Str("") THEN Str("Untitled") ELSE Imported.title)
          /\ HeaderGet(f.text, "lastSync") = ToISOString(now)
          /\ IF Truthy(Imported.teamPath)
             THEN HeaderGet(f.text, "teamPath") = Imported.teamPath
             ELSE ~MHas(HeaderOf(f.text), "teamPath")
          /\ KeepsUnrelated(HeaderOf(Imported.content), HeaderOf(f.text)) ]_vars

\* a note without a title, whose content came with url, lastSync and
\* teamPath of another vault, was imported: fresh metadata, "Untitled"
C13_Witness ==
  /\ cmd.pc = "done"
  /\ outcome.op = "import"
  /\ outcome.kind = "ok"
  /\ \E id \in NoteIds : \E f \in vault :
       /\ remote[id].title = Str("")
       /\ HeaderGet(f.text, "url") = getUrlFromId(id)
       /\ HeaderGet(f.text, "title") = Str("Untitled")
       /\ HeaderGet(f.text, "lastSync") = ToISOString(now)

(***************************************************************************)
(* C14. Collision-free file name.                                          *)
(***************************************************************************)
\* C14: the import adds exactly one file, named after the note's title; its
\* path was free, and it is "<title>.md" (k = 0) or else carries the
\* smallest k >= 1 whose path was free; every file that was there is still
\* there with its text, and no two files share a path.
C14_UniqueFileName ==
  [][ /\ ImportResponse =>
           \E f \in NewFiles :
             /\ vault' = vault \cup {f}
             /\ f.title = OrElse(Imported.title, Str("Untitled")).s
             /\ ~PathTaken(f.title, f.k)
             /\ \A j \in 0..(f.k - 1) : PathTaken(f.title, j)
      /\ vault \subseteq vault'
      /\ \A f, g \in vault' : (f.title = g.title /\ f.k = g.k) => f = g ]_vars

\* "T.md" and "T (1).md" were taken: the import made "T (2).md"
C14_Witness ==
  /\ cmd.pc = "done"
  /\ outcome.op = "import"
  /\ outcome.kind = "ok"
  /\ \E f \in vault : f.title = "T" /\ f.k = 2 /\ MHas(HeaderOf(f.text), "url")

(***************************************************************************)
(* Vocabulary of the codec properties.                                     *)
(***************************************************************************)
\* the merge was applied: its input header, and the header of its result
Merged == arg.fn = "updateLocalNote" /\ ret # <<>>

MergeBefore == HeaderOf(arg.baseContent)

MergeAfter == HeaderOf(ret[1])

C16_Pruning ==
  Merged =>
    /\ \A k \in MKeys(MergeAfter) : MGet(MergeAfter, k) # EmptyObj
    /\ \A k \in MKeys(MergeBefore) \cup MKeys(arg.metadata) :
         ~MHas(MergeAfter, k) => MGet(Spread(MergeBefore, arg.metadata), k) = EmptyObj

(***************************************************************************)
(* C20. Frontmatter round trip.                                            *)
(***************************************************************************)
\* C20: for every non-empty mapping m and every body b, getFrontmatter of
\* combine(m, b) gives back the mapping m and the body b.
C20_RoundTrip ==
  (arg.fn = "getFrontmatter" /\ ret # <<>>) =>
    /\ ret[1].frontmatter = [kind |-> "map", m |-> arg.frontmatter]
    /\ ret[1].content = arg.content

(***************************************************************************)
(* C17. Header invariant.                                                  *)
(***************************************************************************)
\* C17: a Document that started without a header and was touched by the
\* commands only has a header with both url and lastSync or with neither,
\* and a url in the header resolves to the id of a note the store knows.
C17_HeaderInvariant ==
  /\ MHas(HeaderOf(doc.text), "url") <=> MHas(HeaderOf(doc.text), "lastSync")
  /\ MHas(HeaderOf(doc.text), "url") =>
       /\ IsLinked(doc.text)
       /\ LinkOf(doc.text).s \in NoteIds
       /\ remote[LinkOf(doc.text).s] # FreeNote

\* a delete has succeeded on a Document that a push had linked: the header
\* keys are gone and the note is deleted
C17_Witness ==
  /\ outcome.op = "delete"
  /\ outcome.kind = "ok"
  /\ writes > 0
  /\ ~MHas(HeaderOf(doc.text), "url")
  /\ \E id \in NoteIds : remote[id] = DeletedNote

(***************************************************************************)
(* C18. State machine across delete.                                       *)
(***************************************************************************)
\* C18: the Document goes from Unsynced to Linked only at the end of a
\* successful push; at the end of a confirmed successful delete it is
\* Unsynced; on an Unsynced Document pull, copy-url and delete end at once
\* as not linked, with no note request and the Document unchanged, and push
\* sends the request that creates a note.
C18_StateMachine ==
  [][/\ (~IsLinked(doc.text) /\ IsLinked(doc'.text)) =>
          (cmd.op = "push" /\ Ends /\ outcome'.kind = "ok")
     /\ (cmd.pc = "deleting" /\ Ends /\ outcome'.kind = "ok") => ~IsLinked(doc'.text)
     /\ \A op \in {"pull", "copy", "delete"} : \A mode \in {"normal", "force"} :
          (Started(op, mode) /\ ~IsLinked(doc.text)) =>
             /\ Ends
             /\ outcome'.kind \in {"NOT_PUSHED", "NOT_LINKED"}
             /\ NoteFetches(reqs') = {}
             /\ Mutating(reqs') = {}
             /\ doc' = doc
     /\ \A mode \in {"normal", "force"} :
          (Started("push", mode) /\ ~IsLinked(doc.text)) =>
             /\ cmd'.pc = "create"
             /\ net'.method = "POST"
             /\ net'.target = "/notes"]_vars

\* the note of the Document was deleted by a confirmed delete, and the push
\* that follows has sent the request that creates a note
C18_Witness ==
  /\ \E id \in NoteIds : remote[id] = DeletedNote
  /\ ~IsLinked(doc.text)
  /\ cmd.op = "push"
  /\ cmd.pc = "create"
  /\ net.method = "POST"

(***************************************************************************)
(* C19. Unsynced treatment.                                                *)
(***************************************************************************)
\* the header of the text has no url, or a url the Identity Resolver gives
\* no id for
Unsynced(text) ==
  \/ ~MHas(HeaderOf(text), "url")
  \/ getIdFromUrl(MGet(HeaderOf(text), "url")) \in {Null, TypeError}

\* C19: on a Document whose header has no url or a url that resolves to no
\* id, pull, copy-url and delete end at once with an error, no note request
\* sent and the Document unchanged, and push sends the request that creates
\* a note.
C19_UnsyncedTreatment ==
  [][/\ \A op \in {"pull", "copy", "delete"} : \A mode \in {"normal", "force"} :
          (Started(op, mode) /\ Unsynced(doc.text)) =>
             /\ Ends
             /\ outcome'.kind \notin {"ok", "none"}
             /\ NoteFetches(reqs') = {}
             /\ Mutating(reqs') = {}
             /\ doc' = doc
             /\ remote' = remote
     /\ \A mode \in {"normal", "force"} :
          (Started("push", mode) /\ Unsynced(doc.text)) =>
             /\ cmd'.pc = "create"
             /\ net' = createNote(contentWithTitle(doc.text))]_vars

(***************************************************************************)
(* C21. split is recoverable.                                              *)
(***************************************************************************)
\* the text begins with a delimiter line and has a later delimiter line
\* that a newline follows
Delimited(text) ==
  /\ Len(text) >= 3
  /\ text[1] = Delim
  /\ \E d \in 2..(Len(text) - 1) : text[d] = Delim

\* C21: getFrontmatter gives a mapping only for a text that begins with a
\* delimiter line and has a closing delimiter line, and in every other case
\* (the enclosed text being no mapping included) it gives no frontmatter,
\* the whole text as content and position 0.
C21_SplitRecoverable ==
  (arg.fn = "split" /\ ret # <<>>) =>
    /\ ret[1].frontmatter.kind = "map" => Delimited(arg.content)
    /\ ret[1].frontmatter.kind # "map" => ret[1] = NoFrontmatter(arg.content)

(***************************************************************************)
(* C22. Identity round trip.                                               *)
(***************************************************************************)
\* C22: getIdFromUrl(getUrlFromId(id)) is id for every id in accepted
\* characters, getIdFromUrl gives the same id for the @owner form of the
\* url, and it gives nothing for a url on another host and for an empty or
\* absent url.
C22_IdentityRoundTrip ==
  /\ (arg.fn = "getUrlFromId" /\ ret # <<>>) => ret[1] = Str(arg.noteId)
  /\ (arg.fn = "getIdFromUrl" /\ ret # <<>>) =>
       /\ (arg.url \in {UrlOf("hackmd.io", "owner", id) : id \in AcceptedIds}) =>
             ret[1] = Str(arg.url.id)
       /\ (arg.url \in {Null, Str("")}) => ret[1] = Null
       /\ (arg.url.ty = "url" /\ arg.url.host \notin {"hackmd.io", "team.hackmd.io"}) =>
             ret[1] = Null

(***************************************************************************)
(* Vocabulary of the session properties.                                   *)
(***************************************************************************)
\* this step is caller p entering getInstance(token)
Enters(p, token) ==
  /\ arg.fn = "getInstance"
  /\ arg'.call[p].n = nEdits + 1
  /\ arg'.call[p].n # arg.call[p].n
  /\ arg'.call[p].token = token

\* the probe caller p awaits fails in this step
ProbeFails(p) == arg.call[p].pc = "probe" /\ arg'.call[p].pc = "failed"

\* the session the static fields hold for token has passed its probe
VerifiedSession(token) ==
  /\ instToken = token
  /\ arg.instance.token = token
  /\ arg.instance.id \in arg.verified

(***************************************************************************)
(* C23. Session reuse and replacement.                                     *)
(***************************************************************************)
\* C23: getInstance with a non-empty token hands back the cached instance
\* with no request sent if and only if the static fields hold a session
\* for that token that has passed its probe; otherwise it constructs a new
\* instance, makes it and its token the cached ones and sends one probe.
C23_SessionReuse ==
  [][\A p \in Callers : \A token \in SessionTokens \ {""} :
       Enters(p, token) =>
         /\ (arg'.call[p].pc = "got" /\ reqs' = reqs) <=> VerifiedSession(token)
         /\ arg'.call[p].pc = "got" => (arg'.instance = arg.instance /\ instToken' = instToken)
         /\ arg'.call[p].pc # "got" =>
              /\ arg'.call[p].pc = "probe"
              /\ arg'.instance = [id |-> nEdits + 1, token |-> token]
              /\ instToken' = token
              /\ reqs' = Append(reqs, [method |-> "GET", target |-> "/me", token |-> token])]_vars

(***************************************************************************)
(* C24. Failed auth probe resets the session.                              *)
(***************************************************************************)
\* C24: when the probe of getInstance(token) fails, the caller gets the
\* classified error and the static fields hold no session for token, and a
\* getInstance that finds no session for its token sends the probe.
C24_FailedProbeResets ==
  [][\A p \in Callers :
       /\ ProbeFails(p) =>
            /\ arg'.call[p].error \in {handleApiError(st) : st \in FailStatuses}
            /\ instToken' # arg.call[p].token
       /\ \A token \in SessionTokens \ {""} :
            (Enters(p, token) /\ instToken # token) =>
               /\ arg'.call[p].pc = "probe"
               /\ reqs' = Append(reqs, [method |-> "GET", target |-> "/me", token |-> token])]_vars

\* a probe for a token failed, and the next call with the same token has
\* sent the probe again
C24_Witness ==
  /\ arg.fn = "getInstance"
  /\ Len(reqs) = 2
  /\ reqs[1] = reqs[2]
  /\ \E p \in Callers : arg.call[p].pc = "failed" /\ arg.call[p].error = "AUTH_INVALID"
  /\ \E p \in Callers : arg.call[p].pc = "probe" /\ arg.call[p].n = 2

(***************************************************************************)
(* C25. Session is invalidated on any auth failure.                        *)
(***************************************************************************)
\* C25: when a gateway operation on the cached session fails with 401, the
\* static fields hold no session for the caller's token afterwards.
C25_AuthFailureInvalidates ==
  [][\A p \in Callers :
       (arg.fn = "getInstance" /\ arg.call[p].pc = "op" /\ arg'.call[p].pc = "failed"
          /\ arg'.call[p].error = "AUTH_INVALID") =>
       instToken' # arg.call[p].token]_vars

(***************************************************************************)
(* C30. New notes carry the configured defaults.                           *)
(***************************************************************************)
\* C30: every request that creates a note carries the read, write and
\* comment permissions the settings hold when it is sent, and a content
\* whose header title is the name of the Document.
C30_CreateCarriesDefaults ==
  [][(Len(reqs') > Len(reqs) /\ reqs'[Len(reqs')].method = "POST") =>
       /\ net'.method = "POST"
       /\ net'.target = "/notes"
       /\ net'.readPermission = permissions.defaultReadPermission
       /\ net'.writePermission = permissions.defaultWritePermission
       /\ net'.commentPermission = permissions.defaultCommentPermission
       /\ HeaderGet(net'.content, "title") = Str(BaseName)]_vars

\* a create request is in flight that carries permissions the user picked
\* in the settings tab
C30_Witness ==
  /\ cmd.op = "push"
  /\ cmd.pc = "create"
  /\ net.method = "POST"
  /\ net.readPermission = "guest"
  /\ net.commentPermission = "everyone"

(***************************************************************************)
(* C26. Missing token.                                                     *)
(***************************************************************************)
\* C26: a command started while the settings hold no access token ends at
\* once with AUTH_REQUIRED: no request is sent, the cached session stays as
\* it is, and neither the Document nor the remote store is touched.
C26_MissingToken ==
  [][(cmd.pc = "idle" /\ cmd'.pc # "idle" /\ accessToken = "") =>
       /\ Ends
       /\ outcome'.kind = "AUTH_REQUIRED"
       /\ reqs' = <<>>
       /\ net' = NoReq
       /\ instToken' = instToken
       /\ doc' = doc
       /\ writes' = writes
       /\ remote' = remote]_vars

\* a session is cached, the user has emptied the token field, and the
\* command run after that has ended with AUTH_REQUIRED
C26_Witness ==
  /\ accessToken = ""
  /\ instToken # ""
  /\ cmd.pc = "done"
  /\ outcome.kind = "AUTH_REQUIRED"
  /\ IsLinked(doc.text)

(***************************************************************************)
(* C27. Error classification is total and fixed.                           *)
(***************************************************************************)
\* the taxonomy member the claim gives for a status
Classified(status) ==
  CASE status = 0 -> "CONNECTION_FAILED"
    [] status = 401 -> "AUTH_INVALID"
    [] status = 403 -> "PERMISSION_DENIED"
    [] status = 404 -> "NOTE_NOT_FOUND"
    [] status = 429 -> "RATE_LIMITED"
    [] status \in {500, 502, 503, 504} -> "SERVER_ERROR"
    [] OTHER -> "UNKNOWN"

\* C27: a request that fails throws the one error of the taxonomy that the
\* table gives for its status, with the status as status code; DELETE
\* answered 404 and every 2xx answer return normally.
C27_Classification ==
  (arg.fn = "request" /\ ret # <<>>) =>
     IF arg.status \in 200..299 \/ (arg.method = "DELETE" /\ arg.status = 404)
     THEN ret[1].ok
     ELSE /\ ~ret[1].ok
          /\ ret[1].error = Classified(arg.status)
          /\ ret[1].statusCode = arg.status

\* a request answered 429 has thrown RATE_LIMITED with status code 429
C27_Witness ==
  /\ arg.fn = "request"
  /\ arg.status = 429
  /\ ret # <<>>
  /\ ret[1] = [ok |-> FALSE, error |-> "RATE_LIMITED", statusCode |-> 429]

(***************************************************************************)
(* C28. Asynchronous acceptance of update.                                 *)
(***************************************************************************)
\* the text pushToHackMD writes back when updateNote returned note
Stamped(note) == updateLocalNote(cmd.content, updatedMetadata(note))

\* the last two requests of the log are the PATCH and the GET of one id
PatchThenGet(log) ==
  /\ Len(log) >= 2
  /\ log[Len(log) - 1].method = "PATCH"
  /\ log[Len(log)].method = "GET"
  /\ log[Len(log)].target = log[Len(log) - 1].target

\* C28: a PATCH answered 202 sends nothing by itself; the one getNote for the
\* same id goes out only once the fixed delay after the answer is over; its
\* result, or its error, is the result of the update and no request follows;
\* a PATCH answered with a note ends the update with that note and no
\* further request.
C28_AcceptedUpdate ==
  [][/\ (cmd.pc = "update" /\ cmd'.pc = "settle") =>
          /\ reqs' = reqs
          /\ net' = NoReq
          /\ cmd'.timer = now + UPDATE_SETTLE_DELAY
     /\ (cmd.pc = "settle" /\ reqs' # reqs) =>
          /\ now >= cmd.timer
          /\ cmd'.pc = "refetch"
          /\ reqs' = Append(reqs, [method |-> "GET", target |-> cmd.noteId.s])
          /\ PatchThenGet(reqs')
     /\ (cmd.pc = "settle" /\ cmd'.pc # "settle") => reqs' # reqs
     /\ (cmd.pc = "refetch" /\ cmd' # cmd) =>
          /\ cmd'.pc = "done"
          /\ reqs' = reqs
          /\ outcome'.kind = "ok" => doc'.text = Stamped(remote[net.target])
     /\ (cmd.pc = "update" /\ cmd'.pc = "done" /\ outcome'.kind = "ok") =>
          /\ reqs' = reqs
          /\ doc'.text = Stamped(remote'[net.target])
          /\ remote'[net.target].content = net.content
    ]_vars

\* a push ended well through the 202 path: PATCH, then one GET
C28_Witness ==
  /\ cmd.pc = "done"
  /\ cmd.op = "push"
  /\ outcome.kind = "ok"
  /\ PatchThenGet(reqs)
  /\ now >= UPDATE_SETTLE_DELAY

(***************************************************************************)
(* C29. No automatic retry.                                                *)
(***************************************************************************)
\* the errors of the taxonomy that a failed request is classified as
GatewayErrors ==
  {"CONNECTION_FAILED", "AUTH_INVALID", "PERMISSION_DENIED", "NOTE_NOT_FOUND",
   "RATE_LIMITED", "SERVER_ERROR", "UNKNOWN"}

\* the request in flight fails in this step
RequestFailed ==
  /\ net # NoReq
  /\ net' = NoReq
  /\ outcome'.kind \in GatewayErrors

\* C29: the step in which a request fails sends nothing and ends the command
\* with the error of that request (a failed delete goes back to the open
\* modal, where only the user's next click sends a request); a command that
\* ended sends nothing and keeps its one outcome until its Notice is gone.
C29_NoRetry ==
  [][/\ RequestFailed =>
          /\ reqs' = reqs
          /\ cmd'.pc = IF cmd.pc = "deleting" THEN "modal" ELSE "done"
          /\ \E st \in {0} \cup 400..599 : outcome'.kind = Classified(st)
     /\ (cmd.pc = "done" /\ cmd'.pc # "idle") =>
          /\ reqs' = reqs
          /\ net' = NoReq
          /\ outcome' = outcome
     /\ (cmd.pc = "modal" /\ reqs' # reqs) => cmd'.pc = "deleting"
    ]_vars

\* a push whose update failed after its check had passed
C29_Witness ==
  /\ cmd.pc = "done"
  /\ cmd.op = "push"
  /\ outcome.kind \in GatewayErrors
  /\ Len(reqs) = 2
  /\ reqs[2].method = "PATCH"
  /\ net = NoReq

(***************************************************************************)
(* C31. Migration of the old header form.                                  *)
(***************************************************************************)
\* the header of the text holds the nested form and no url of its own
HasOldForm(text) ==
  /\ MHas(HeaderOf(text), "hackmd")
  /\ MGet(HeaderOf(text), "hackmd").size = 3
  /\ ~MHas(HeaderOf(text), "url")

\* the note that the nested url names
OldLink(text) == getIdFromUrl(MGet(HeaderOf(text), "hackmd").url)

\* C31: a push of a Document with the old header form goes to the note that
\* the nested url names and creates no note, a pull of it is not refused as
\* not pushed, and the header that a successful sync writes has url, title
\* and lastSync at the top level.
C31_Migration ==
  [][/\ \A mode \in {"normal", "force"} :
          (Started("push", mode) /\ HasOldForm(doc.text)) =>
             /\ cmd'.pc \in {"check", "update"}
             /\ net'.target = OldLink(doc.text).s
             /\ Count(reqs', "POST") = 0
     /\ \A mode \in {"normal", "force"} :
          (Started("pull", mode) /\ HasOldForm(doc.text)) =>
             outcome'.kind # "NOT_PUSHED"
     /\ (Ends /\ cmd.op \in {"push", "pull"} /\ HasOldForm(cmd.content) /\ outcome'.kind = "ok") =>
          {"url", "title", "lastSync"} \subseteq MKeys(HeaderOf(doc'.text))
    ]_vars

(***************************************************************************)
(* C32. Per-document mutual exclusion.                                     *)
(***************************************************************************)
\* the second invocation is between its read of the Document and its
\* write-back
SecondInFlight == arg # NoArg /\ arg.fn = "pushToHackMD" /\ arg.pc # "done"

\* the first invocation is between its read of the Document and its
\* write-back
FirstInFlight == cmd.pc \in Suspended

\* C32: never are two transactions on the Document between their read and
\* their write-back, and the overlapping pushes of a Document send at most
\* one request that creates a note.
C32_MutualExclusion ==
  /\ ~(FirstInFlight /\ SecondInFlight)
  /\ Count(reqs, "POST") <= 1
  /\ Cardinality({i \in NoteIds : IsLive(i)}) <= 1

(***************************************************************************)
(* C33. No spurious conflict after a sync.                                 *)
(***************************************************************************)
\* C33: in the state a successful push or pull leaves, the conflict checks
\* of a normal push and of a normal pull pass; what they compare (lastSync,
\* the remote modification time, the local modification time) changes only
\* when the note or the Document is modified, so they pass at any later time.
C33_NoSpuriousConflict ==
  [][(Ends /\ cmd.op \in {"push", "pull"} /\ outcome'.kind = "ok") =>
        /\ IsLinked(doc'.text)
        /\ LinkOf(doc'.text).s \in NoteIds
        /\ remote'[LinkOf(doc'.text).s].state = "live"
        /\ checkPushConflicts(doc'.text, remote'[LinkOf(doc'.text).s]) = ""
        /\ checkPullConflicts(doc'.text, doc'.mtime) = ""
    ]_vars

(***************************************************************************)
(* C34. No silent overwrite of a remote edit.                              *)
(***************************************************************************)
\* this step applies the update of the push in flight to the remote note
UpdateApplied ==
  /\ cmd.pc = "update"
  /\ cmd'.pc # "update"
  /\ remote'[net.target] # remote[net.target]

\* C34: the content that the update of a normal push replaces is the
\* content that its conflict check fetched.
C34_NoSilentOverwrite ==
  [][(UpdateApplied /\ cmd.mode = "normal") =>
        /\ ret # <<>>
        /\ remote[net.target].content = ret[1].content
    ]_vars

(***************************************************************************)
(* C35. No silent loss of local edits made during a push.                  *)
(***************************************************************************)
\* the body text after the header block
BodyOf(text) == getFrontmatter(text).content

\* C35: when the Document was edited while the push was suspended, the
\* write-back that ends the push keeps the body that the Document has then.
C35_KeepsLocalEdits ==
  [][(Ends /\ cmd.op = "push" /\ outcome'.kind = "ok" /\ doc.text # cmd.content) =>
        BodyOf(doc'.text) = BodyOf(doc.text)
    ]_vars

(***************************************************************************)
(* C36. Only verified sessions are handed out.                             *)
(***************************************************************************)
\* C36: the instance a caller of getInstance holds is one whose probe has
\* succeeded.
C36_OnlyVerified ==
  arg.fn = "getInstance" =>
    \A p \in Callers : arg.call[p].pc = "got" => arg.call[p].client \in arg.verified

(***************************************************************************)
(* C37. Document unchanged on any gateway failure.                         *)
(***************************************************************************)
\* C37: the step in which a request of push, pull or a confirmed delete
\* fails leaves the Document as it is, and the command has written nothing
\* to it before; after a failed delete the Document has the link it had.
C37_UnchangedOnFailure ==
  [][RequestFailed =>
        /\ doc' = doc
        /\ writes = 0
        /\ writes' = 0
        /\ cmd.pc = "deleting" => (cmd'.pc = "modal" /\ LinkOf(doc'.text) = LinkOf(doc.text))
    ]_vars

\* a confirmed delete has failed and the Document is still linked to the
\* note the request named
C37_Witness ==
  /\ cmd.op = "delete"
  /\ cmd.pc = "modal"
  /\ outcome.kind \in GatewayErrors
  /\ Len(reqs) >= 1
  /\ reqs[Len(reqs)].method = "DELETE"
  /\ IsLinked(doc.text)
  /\ LinkOf(doc.text).s = reqs[Len(reqs)].target
  /\ writes = 0

(***************************************************************************)
(* C38. Header-only operations keep the body.                              *)
(***************************************************************************)
\* the line that closes the header block of a text with a header
ClosingDelim(text) == FirstDelim(text, 2, Len(text) - 1)

\* the text after the closing delimiter line, blank lines included; the
\* whole text when there is no header block
TextBody(text) ==
  IF HasFrontmatter(text) /\ ClosingDelim(text) > 0
  THEN SliceFrom(text, ClosingDelim(text) + 1)
  ELSE text

\* C38: the write-back of a successful push, and the cleanup of a confirmed
\* delete, leave the text after the header block as it was.
C38_KeepsBody ==
  [][/\ (Ends /\ cmd.op = "push" /\ outcome'.kind = "ok" /\ doc.text = cmd.content) =>
          TextBody(doc'.text) = TextBody(doc.text)
     /\ (Ends /\ cmd.op = "delete" /\ outcome'.kind = "ok") =>
          TextBody(doc'.text) = TextBody(doc.text)
    ]_vars

(***************************************************************************)
(* C39. Confirmation is single-flight.                                     *)
(***************************************************************************)
\* the handler of the Delete button is running: the loading flag is set
Loading == cmd.pc = "deleting"

\* C39: a click on Delete that is accepted sends one delete request; while
\* its handler runs no further request is sent and no button takes effect;
\* the handler ends with the loading flag cleared, after one cleanup and
\* with the dialog closed when it succeeded, with the Document untouched
\* and the dialog open when it failed.
C39_SingleFlight ==
  [][/\ (cmd.pc = "modal" /\ cmd'.pc = "deleting") =>
          reqs' = Append(reqs, [method |-> "DELETE", target |-> cmd.noteId.s])
     /\ Loading =>
          /\ reqs' = reqs
          /\ cmd'.pc \in {"deleting", "modal", "done"}
          /\ cmd'.pc = "deleting" => (cmd' = cmd /\ net' = net /\ writes' = writes)
     /\ (Loading /\ cmd'.pc = "done") =>
          /\ outcome'.kind = "ok"
          /\ writes = 0
          /\ writes' <= 1
     /\ (Loading /\ cmd'.pc = "modal") =>
          /\ outcome'.kind \in GatewayErrors
          /\ doc' = doc
          /\ writes' = 0
    ]_vars

\* a delete failed, the dialog stayed open, and the second confirmation is
\* in flight
C39_Witness ==
  /\ Loading
  /\ outcome.kind \in GatewayErrors
  /\ Len(reqs) = 2
  /\ reqs[1].method = "DELETE"
  /\ reqs[2] = reqs[1]

(***************************************************************************)
(* C40. An empty response is never returned as a value.                    *)
(***************************************************************************)
\* the response carries no data: no content, accepted, an empty text or null
NoData(status, body) == status \in {202, 204} \/ body.text = "" \/ body.json = Null

\* the data is no user: it lacks id, name or userPath
NoUser(body) == body.json = Null \/ ~({"id", "name", "userPath"} \subseteq body.json.keys)

\* the operation failed with the error type
FailedWith(type) == ~ret[1].ok /\ ret[1].error = type

\* C40: getMe on a response without a user fails with AUTH_INVALID, getNote
\* on a response without data with NOTE_NOT_FOUND (also as the second
\* request of updateNote after 202), createNote and a non-202 updateNote
\* with UNKNOWN; what an operation returns is never the absent value.
C40_NoEmptyValue ==
  (arg.fn \in {"getMe", "getNote", "createNote", "updateNote"} /\ ret # <<>>) =>
     /\ ret[1].ok => ret[1].value # Null
     /\ (arg.fn = "getMe" /\ (NoData(arg.status, arg.body) \/ NoUser(arg.body))) =>
          FailedWith("AUTH_INVALID")
     /\ (arg.fn = "getNote" /\ NoData(arg.status, arg.body)) => FailedWith("NOTE_NOT_FOUND")
     /\ (arg.fn = "createNote" /\ NoData(arg.status, arg.body)) => FailedWith("UNKNOWN")
     /\ (arg.fn = "updateNote" /\ arg.status # 202 /\ NoData(arg.status, arg.body)) =>
          FailedWith("UNKNOWN")
     /\ (arg.fn = "updateNote" /\ arg.status = 202 /\ NoData(arg.status2, arg.body2)) =>
          FailedWith("NOTE_NOT_FOUND")

\* getNote on a response 200 whose body is null has thrown NOTE_NOT_FOUND
C40_Witness ==
  /\ arg.fn = "getNote"
  /\ arg.status = 200
  /\ arg.body = Body("x", Null)
  /\ ret # <<>>
  /\ ret[1] = [ok |-> FALSE, error |-> "NOTE_NOT_FOUND", statusCode |-> Null]

====
